---- MODULE Spec2Model ----
(***************************************************************************)
(* Sentiment dashboard: the collection-to-recommendation pipeline.         *)
(*                                                                         *)
(* Each stage of the pipeline is modelled as its own state machine over    *)
(* its own group of variables; a specification runs one stage and leaves   *)
(* the other groups at their idle values.                                  *)
(*                                                                         *)
(*   SpecRelevance   RelevanceFilter.filterRelevant    (relevance-filter)  *)
(***************************************************************************)
EXTENDS Integers, Sequences, FiniteSets, TLC

(***************************************************************************)
(* Generic helpers                                                         *)
(***************************************************************************)

\* Array.prototype.slice(from, to) on a 0-based half-open index range
Slice(s, from, to) ==
  LET hi == IF to < Len(s) THEN to ELSE Len(s)
  IN  IF from >= hi THEN <<>> ELSE SubSeq(s, from + 1, hi)

\* the set of elements of a sequence
Range(s) == { s[i] : i \in 1..Len(s) }

\* all sequences over S of length 0..n
SeqsUpTo(S, n) == UNION { [1..k -> S] : k \in 0..n }

(***************************************************************************)
(* Bounds of the model                                                     *)
(***************************************************************************)

\* longest item list handed to filterRelevant
MaxItems == 4

\* largest batchSize argument handed to filterRelevant
MaxBatchSize == 2

\* longest mention list handed to clusterByTopics
MaxMentions == 3

\* largest cluster handed to analyzeClusters on its own
MaxClusterSize == 9

\* largest number of clusters handed to generateRecommendations
MaxRecClusters == 3

\* largest number of topics topic generation answers with in a run of the route
MaxRouteTopics == 2

\* longest array the model answers a topic request with
MaxTopicElems == 3

\* largest count asked of generateTopics
MaxTopicCount == 2

\* longest listing a search answers with
MaxPosts == 3

\* largest number of nodes of a reply tree
MaxTreeNodes == 4

\* largest hours asked of HistoryGenerator.generate
MaxHours == 3

\* pieces of a text handed to the pre-filter
MaxPieces == 4

(***************************************************************************)
(* State                                                                   *)
(***************************************************************************)

\* RelevanceFilter.filterRelevant
VARIABLES
  rf_pc,        \* "start" | "loop" | "done": position inside filterRelevant
  rf_items,     \* argument items
  rf_batchSize, \* argument batchSize
  rf_pre,       \* preFiltered
  rf_i,         \* loop variable i
  rf_relevant,  \* accumulator relevant
  rf_log,       \* one entry per filterBatch call: its batch, the call's outcome, its result
  rf_result     \* the list filterRelevant returned

\* SentimentAnalyzer.analyze
VARIABLES
  sa_pc,        \* "idle" | "awaiting" | "returned"
  sa_outcome,   \* how the generateText call of the last analyze ended
  sa_result     \* the SentimentResult the last analyze returned

\* TopicAnalyzer.clusterByTopics
VARIABLES
  ta_pc,        \* "start" | "assign" | "describe" | "done"
  ta_mentions,  \* argument mentions
  ta_topics,    \* topics, as identifyTopics returned them
  ta_clusters,  \* the Map clusters, as its entries in insertion order
  ta_i,         \* loop variable i of the batch loop
  ta_pending,   \* indices of the mentions of the current batch whose call is in flight
  ta_result     \* the list clusterByTopics returned

\* TopicAnalyzer.analyzeClusters on its own
VARIABLES
  an_pc,        \* "start" | "done"
  an_input,     \* argument clusters
  an_output     \* the analyzed, sorted list

\* RecommendationEngine.generateRecommendations
VARIABLES
  re_pc,        \* "start" | "awaiting" | "done"
  re_clusters,  \* argument clusters
  re_pending,   \* indices (in clustersToAddress) of the calls in flight
  re_outcomes,  \* how the call of each addressed cluster ended, once it has
  re_recs,      \* what generateRecommendation returned for each addressed cluster
  re_calls,     \* number of generateText calls issued
  re_result     \* the list generateRecommendations returned

\* GET of the sentiment route (run analysis)
VARIABLES
  rt_pc,          \* "topics" | "search" | "comments" | "filter" | "sentiment" | "done"
  rt_generated,   \* what generateTopics returned
  rt_topics,      \* topics
  rt_limit,       \* postsPerTopic
  rt_t,           \* position of the topic loop
  rt_allPosts,    \* allPosts
  rt_unique,      \* uniquePosts
  rt_p,           \* position of the loop over postsToFetch
  rt_allComments, \* allComments
  rt_pre,         \* preFiltered of the filterRelevant call
  rt_i,           \* loop variable i of the filterRelevant call
  rt_relevant,    \* relevant of the filterRelevant call, then relevantCommentsRaw
  rt_items,       \* itemsToAnalyze
  rt_calls,       \* external calls made so far, per kind
  rt_response,    \* the JSON body the handler responded with
  rt_hung         \* the call the handler awaits never completes

\* TopicGenerator.generateTopics
VARIABLES
  tg_pc,       \* "idle" | "call" | "done"
  tg_company,  \* company
  tg_count,    \* count
  tg_outcome,  \* how the model call ended
  tg_result    \* the topics returned

\* RedditClient: one call of search or fetchComments
VARIABLES
  rc_pc,       \* "idle" | "call" | "done"
  rc_op,       \* the method called
  rc_args,     \* limit and company of the call
  rc_outcome,  \* how the fetch ended
  rc_result    \* what the method returned, or that it threw

\* HistoryGenerator.generate
VARIABLES
  hg_pc,            \* "idle" | "loop" | "done"
  hg_currentScore,  \* currentScore
  hg_hours,         \* hours
  hg_now,           \* now
  hg_i,             \* loop variable i
  hg_history        \* history

\* one call of a lower-level stage, with the outcome of its external calls
VARIABLES
  st_pc,      \* "idle" | "call" | "done"
  st_stage,   \* the stage called
  st_input,   \* what the stage was handed
  st_failed,  \* an external call of the stage threw
  st_result   \* what the stage returned, or that it threw

VARIABLES
  pf_pc,      \* "idle" | "call" | "done"
  pf_text,    \* text
  pf_result   \* what isObviouslyIrrelevant returned

VARIABLES
  ga_pc,       \* the promise of generateAllPlatforms: "idle" | "pending" | "fulfilled" | "rejected"
  ga_angle,    \* postIdea.angle
  ga_pending,  \* platforms whose generateContent call has not settled
  ga_settled,  \* platform -> what its call settled with
  ga_order,    \* the platforms in the order their calls settled
  ga_result    \* what the promise settled with

rfVars == <<rf_pc, rf_items, rf_batchSize, rf_pre, rf_i, rf_relevant, rf_log, rf_result>>

saVars == <<sa_pc, sa_outcome, sa_result>>

taVars == <<ta_pc, ta_mentions, ta_topics, ta_clusters, ta_i, ta_pending, ta_result>>

anVars == <<an_pc, an_input, an_output>>

reVars == <<re_pc, re_clusters, re_pending, re_outcomes, re_recs, re_calls, re_result>>

rtVars == <<rt_pc, rt_generated, rt_topics, rt_limit, rt_t, rt_allPosts, rt_unique, rt_p, rt_allComments,
            rt_pre, rt_i, rt_relevant, rt_items, rt_calls, rt_response, rt_hung>>

tgVars == <<tg_pc, tg_company, tg_count, tg_outcome, tg_result>>

rcVars == <<rc_pc, rc_op, rc_args, rc_outcome, rc_result>>

hgVars == <<hg_pc, hg_currentScore, hg_hours, hg_now, hg_i, hg_history>>

stVars == <<st_pc, st_stage, st_input, st_failed, st_result>>

pfVars == <<pf_pc, pf_text, pf_result>>

gaVars == <<ga_pc, ga_angle, ga_pending, ga_settled, ga_order, ga_result>>

vars == <<rfVars, saVars, taVars, anVars, reVars, rtVars, tgVars, rcVars, hgVars, stVars, pfVars, gaVars>>

\* what the actions of one stage leave alone
rfOthers == <<saVars, taVars, anVars, reVars, rtVars, tgVars, rcVars, hgVars, stVars, pfVars, gaVars>>

saOthers == <<rfVars, taVars, anVars, reVars, rtVars, tgVars, rcVars, hgVars, stVars, pfVars, gaVars>>

taOthers == <<rfVars, saVars, anVars, reVars, rtVars, tgVars, rcVars, hgVars, stVars, pfVars, gaVars>>

anOthers == <<rfVars, saVars, taVars, reVars, rtVars, tgVars, rcVars, hgVars, stVars, pfVars, gaVars>>

reOthers == <<rfVars, saVars, taVars, anVars, rtVars, tgVars, rcVars, hgVars, stVars, pfVars, gaVars>>

rtOthers == <<rfVars, saVars, taVars, anVars, reVars, tgVars, rcVars, hgVars, stVars, pfVars, gaVars>>

tgOthers == <<rfVars, saVars, taVars, anVars, reVars, rtVars, rcVars, hgVars, stVars, pfVars, gaVars>>

rcOthers == <<rfVars, saVars, taVars, anVars, reVars, rtVars, tgVars, hgVars, stVars, pfVars, gaVars>>

hgOthers == <<rfVars, saVars, taVars, anVars, reVars, rtVars, tgVars, rcVars, stVars, pfVars, gaVars>>

stOthers == <<rfVars, saVars, taVars, anVars, reVars, rtVars, tgVars, rcVars, hgVars, pfVars, gaVars>>

pfOthers == <<rfVars, saVars, taVars, anVars, reVars, rtVars, tgVars, rcVars, hgVars, stVars, gaVars>>

gaOthers == <<rfVars, saVars, taVars, anVars, reVars, rtVars, tgVars, rcVars, hgVars, stVars, pfVars>>

(***************************************************************************)
(* RelevanceFilter                                                         *)
(***************************************************************************)

\* A text is represented by what the keyword and pattern tests of the
\* pre-filter see in it.
\*   sent     a word of the sentiment lexicon occurs
\*   strong   a word of the strong-sentiment lexicon occurs
\*   company  the lower-cased company name occurs
\*   word     some company-name token longer than 3 characters occurs
\*   job / spam        a job-posting / promotional phrase occurs
\*   news / tech / generic   a news / tech-support / discussion-prompt pattern matches
\*   len      length of the trimmed text
MkText(sent, strong, company, word, job, news, tech, spam, generic, len) ==
  [sent |-> sent, strong |-> strong, company |-> company, word |-> word,
   job |-> job, news |-> news, tech |-> tech, spam |-> spam,
   generic |-> generic, len |-> len]

\* "Terrible experience with Acme customer service" style comment
TextOpinion == MkText(TRUE, TRUE, TRUE, TRUE, FALSE, FALSE, FALSE, FALSE, FALSE, 45)
\* "Acme is bad"
TextShort   == MkText(TRUE, FALSE, TRUE, TRUE, FALSE, FALSE, FALSE, FALSE, FALSE, 11)
\* "We're hiring at Acme, great team and the best benefits"
TextHiring  == MkText(TRUE, TRUE, TRUE, TRUE, TRUE, FALSE, FALSE, FALSE, FALSE, 54)

TextSamples == {TextOpinion, TextShort, TextHiring}

hasSentimentIndicators(text) == text.sent

hasStrongSentimentIndicators(text) == text.strong

\* shortest trimmed text the pre-filter lets through
PfMinLength == 30

\* variant: a text with a sentiment word that mentions the company passes
isObviouslyIrrelevant_mentionPasses(text) ==
  IF ~hasSentimentIndicators(text) THEN TRUE
  ELSE IF ~text.company /\ ~text.word THEN TRUE
  ELSE FALSE

isObviouslyIrrelevant(text) ==
  IF ~hasSentimentIndicators(text) THEN TRUE
  ELSE IF ~text.company /\ ~text.word THEN TRUE
  ELSE IF text.job THEN TRUE
  ELSE IF text.news /\ ~hasStrongSentimentIndicators(text) THEN TRUE
  ELSE IF text.tech THEN TRUE
  ELSE IF text.spam THEN TRUE
  ELSE IF text.generic /\ ~hasStrongSentimentIndicators(text) THEN TRUE
  ELSE IF text.len < PfMinLength THEN TRUE
  ELSE FALSE

\* variant: every item goes to the classification calls
preFilter_keepAll(items) == items

\* preFiltered
preFilter(items) == SelectSeq(items, LAMBDA item : ~isObviouslyIrrelevant(item.text))

\* The text a classification call answers with, as parseRelevantIds reads it:
\*   hasArray   the pattern \[[\s\S]*?\] matches somewhere
\*   parses     JSON.parse accepts the matched text
\*   elems      the elements of the parsed array; isStr is typeof = "string".
\*              The model answers with ids of the batch, with an id of no item
\*              (0), or with the first id of the batch as a number.
RfElems(batch) ==
  { [isStr |-> TRUE, v |-> batch[k].id] : k \in 1..Len(batch) }
  \cup { [isStr |-> TRUE, v |-> 0] }
  \cup { [isStr |-> FALSE, v |-> batch[k].id] : k \in {1} \cap (1..Len(batch)) }

RfResponses(batch) ==
  { [hasArray |-> FALSE, parses |-> FALSE, elems |-> {}],
    [hasArray |-> TRUE,  parses |-> FALSE, elems |-> {}] }
  \cup { [hasArray |-> TRUE, parses |-> TRUE, elems |-> E] : E \in SUBSET RfElems(batch) }

\* generateText either throws or resolves with a text
RfOutcomes(batch) ==
  { [threw |-> TRUE, resp |-> [hasArray |-> FALSE, parses |-> FALSE, elems |-> {}]] }
  \cup { [threw |-> FALSE, resp |-> r] : r \in RfResponses(batch) }

\* the set of ids parseRelevantIds returns
parseRelevantIds(resp) ==
  IF ~resp.hasArray THEN {}
  ELSE IF ~resp.parses THEN {}
  ELSE { e.v : e \in { x \in resp.elems : x.isStr } }

\* variant: a failed call drops the batch
filterBatch_failClosed(batch, outcome) ==
  IF outcome.threw THEN <<>>
  ELSE LET relevantIds == parseRelevantIds(outcome.resp)
       IN  SelectSeq(batch, LAMBDA item : item.id \in relevantIds)

filterBatch(batch, outcome) ==
  IF outcome.threw THEN batch
  ELSE LET relevantIds == parseRelevantIds(outcome.resp)
       IN  SelectSeq(batch, LAMBDA item : item.id \in relevantIds)

\* item k of an input list has id k
RfInputs ==
  { [k \in 1..Len(t) |-> [id |-> k, text |-> t[k]]] :
      t \in SeqsUpTo(TextSamples, MaxItems) }

RfIdle ==
  /\ rf_pc = "idle"
  /\ rf_items = <<>>
  /\ rf_batchSize = 1
  /\ rf_pre = <<>>
  /\ rf_i = 0
  /\ rf_relevant = <<>>
  /\ rf_log = <<>>
  /\ rf_result = <<>>

RfInit ==
  /\ rf_pc = "start"
  /\ rf_items \in RfInputs
  /\ rf_batchSize \in 1..MaxBatchSize
  /\ rf_pre = <<>>
  /\ rf_i = 0
  /\ rf_relevant = <<>>
  /\ rf_log = <<>>
  /\ rf_result = <<>>

\* filterRelevant up to the first classification call
RfStart ==
  /\ rf_pc = "start"
  /\ LET preFiltered == preFilter(rf_items)
     IN  /\ rf_pre' = preFiltered
         /\ rf_pc' = IF Len(rf_items) = 0 \/ Len(preFiltered) = 0 THEN "done" ELSE "loop"
  /\ UNCHANGED <<rf_items, rf_batchSize, rf_i, rf_relevant, rf_log, rf_result>>
  /\ UNCHANGED rfOthers

\* one iteration of the batch loop: the call of filterBatch, its outcome, the push;
\* after the last batch filterRelevant returns relevant
RfBatch ==
  /\ rf_pc = "loop"
  /\ rf_i < Len(rf_pre)
  /\ LET batch == Slice(rf_pre, rf_i, rf_i + rf_batchSize)
     IN  \E outcome \in RfOutcomes(batch) :
           LET batchResults == filterBatch(batch, outcome)
               next == rf_i + rf_batchSize
           IN  /\ rf_relevant' = rf_relevant \o batchResults
               /\ rf_log' = Append(rf_log, [batch |-> batch,
                                            outcome |-> outcome,
                                            out |-> batchResults])
               /\ rf_i' = next
               /\ IF next < Len(rf_pre)
                    THEN /\ rf_pc' = "loop"
                         /\ rf_result' = rf_result
                    ELSE /\ rf_pc' = "done"
                         /\ rf_result' = rf_relevant \o batchResults
  /\ UNCHANGED <<rf_items, rf_batchSize, rf_pre>>
  /\ UNCHANGED rfOthers

(***************************************************************************)
(* JavaScript numbers and values, as far as the score arithmetic needs     *)
(***************************************************************************)

\* a number is an integer or NaN
Num(n) == [nan |-> FALSE, v |-> n]

NaN == [nan |-> TRUE, v |-> 0]

\* JSON values a field can hold: absent, null, true, a number, a string.
\* A string is kept as what Number() makes of it: empty (0), numeric, or NaN.
JsUndefined == [t |-> "undefined", n |-> NaN]

JsNull == [t |-> "null", n |-> NaN]

JsTrue == [t |-> "true", n |-> NaN]

JsNum(n) == [t |-> "number", n |-> Num(n)]

JsNumericStr(n) == [t |-> "string", n |-> Num(n)]

JsWordStr == [t |-> "string", n |-> NaN]

JsEmptyStr == [t |-> "emptystring", n |-> Num(0)]

\* ToBoolean
Truthy(x) ==
  CASE x.t = "undefined"   -> FALSE
    [] x.t = "null"        -> FALSE
    [] x.t = "emptystring" -> FALSE
    [] x.t = "number"      -> x.n.v # 0
    [] OTHER               -> TRUE

\* ToNumber
ToNumber(x) ==
  CASE x.t = "undefined"   -> NaN
    [] x.t = "null"        -> Num(0)
    [] x.t = "true"        -> Num(1)
    [] x.t = "emptystring" -> Num(0)
    [] OTHER               -> x.n

\* x || 0
OrZero(x) == IF Truthy(x) THEN x ELSE JsNum(0)

\* Math.min and Math.max of a constant and a number: NaN if the number is NaN
MathMin(c, a) == IF a.nan THEN NaN ELSE Num(IF c < a.v THEN c ELSE a.v)

MathMax(c, a) == IF a.nan THEN NaN ELSE Num(IF c > a.v THEN c ELSE a.v)

(***************************************************************************)
(* SentimentAnalyzer                                                       *)
(***************************************************************************)

validSentiments == {"positive", "neutral", "negative"}

\* the sentiment field of the parsed object: one of the three labels, another
\* string ("mixed"), or no such field
SaSentimentFields == validSentiments \cup {"mixed", "undefined"}

SaScoreFields ==
  {JsUndefined, JsNull, JsTrue, JsWordStr, JsEmptyStr, JsNumericStr(500), JsNumericStr(-20)}
  \cup { JsNum(n) : n \in {-500, -101, -100, -35, 0, 50, 100, 101, 500} }

\* The text generateText resolved with, as parseResponse reads it:
\*   hasObject  the pattern \{[^}]+\} matches somewhere
\*   parses     JSON.parse accepts the matched text
\*   sentiment, score   the two fields of the parsed object
SaNoFields == [sentiment |-> "undefined", score |-> JsUndefined]

SaOutcomes ==
  { [threw |-> TRUE,  hasObject |-> FALSE, parses |-> FALSE, parsed |-> SaNoFields],
    [threw |-> FALSE, hasObject |-> FALSE, parses |-> FALSE, parsed |-> SaNoFields],
    [threw |-> FALSE, hasObject |-> TRUE,  parses |-> FALSE, parsed |-> SaNoFields] }
  \cup { [threw |-> FALSE, hasObject |-> TRUE, parses |-> TRUE,
          parsed |-> [sentiment |-> s, score |-> x]] :
           s \in SaSentimentFields, x \in SaScoreFields }

\* parseResponse throws when no object is found or JSON.parse rejects it
parseResponseThrows(outcome) == ~outcome.hasObject \/ ~outcome.parses

\* variant: one invalid field discards both fields
validateResult_allOrNothing(parsed) ==
  IF parsed.sentiment \notin validSentiments \/ parsed.score.t = "undefined"
    THEN [label |-> "neutral", score |-> Num(0)]
    ELSE [label |-> parsed.sentiment,
          score |-> MathMax(-100, MathMin(100, ToNumber(OrZero(parsed.score))))]

validateResult(parsed) ==
  LET sentiment == IF parsed.sentiment \in validSentiments THEN parsed.sentiment ELSE "neutral"
      score == MathMax(-100, MathMin(100, ToNumber(OrZero(parsed.score))))
  IN  [label |-> sentiment, score |-> score]

getFallbackSentiment == [label |-> "neutral", score |-> Num(0)]

analyze(outcome) ==
  IF outcome.threw \/ parseResponseThrows(outcome)
    THEN getFallbackSentiment
    ELSE validateResult(outcome.parsed)

SaIdle ==
  /\ sa_pc = "idle"
  /\ sa_outcome = [threw |-> TRUE, hasObject |-> FALSE, parses |-> FALSE, parsed |-> SaNoFields]
  /\ sa_result = getFallbackSentiment

\* analyze is called and issues its generateText call
SaCall ==
  /\ sa_pc \in {"idle", "returned"}
  /\ sa_pc' = "awaiting"
  /\ UNCHANGED <<sa_outcome, sa_result>>
  /\ UNCHANGED saOthers

\* the call ends and analyze returns
SaReturn ==
  /\ sa_pc = "awaiting"
  /\ \E outcome \in SaOutcomes :
       /\ sa_outcome' = outcome
       /\ sa_result' = analyze(outcome)
  /\ sa_pc' = "returned"
  /\ UNCHANGED saOthers

(***************************************************************************)
(* Strings, as far as matching needs them: a string is a sequence of       *)
(* characters: letters of either case, a space and a quote.               *)
(***************************************************************************)

UpperCaseLetters ==
  <<"A", "B", "C", "D", "E", "F", "G", "H", "I", "J", "K", "L", "M", "N",
     "O", "P", "Q", "R", "S", "T", "U", "V", "W", "X", "Y", "Z">>

LowerCaseLetters ==
  <<"a", "b", "c", "d", "e", "f", "g", "h", "i", "j", "k", "l", "m", "n",
     "o", "p", "q", "r", "s", "t", "u", "v", "w", "x", "y", "z">>

LowerChar(c) ==
  IF \E k \in 1..Len(UpperCaseLetters) : UpperCaseLetters[k] = c
    THEN LowerCaseLetters[CHOOSE k \in 1..Len(UpperCaseLetters) : UpperCaseLetters[k] = c]
    ELSE c

toLowerCase(s) == [k \in 1..Len(s) |-> LowerChar(s[k])]

\* String.prototype.includes
includes(hay, needle) ==
  \E o \in 0..(Len(hay) - Len(needle)) :
    \A k \in 1..Len(needle) : hay[o + k] = needle[k]

RECURSIVE trimStart(_)
trimStart(s) == IF Len(s) > 0 /\ s[1] = " " THEN trimStart(Tail(s)) ELSE s

RECURSIVE trimEnd(_)
trimEnd(s) ==
  IF Len(s) > 0 /\ s[Len(s)] = " " THEN trimEnd(SubSeq(s, 1, Len(s) - 1)) ELSE s

trim(s) == trimEnd(trimStart(s))

\* replace(/^["']|["']$/g, "")
stripQuotes(s) ==
  LET s1 == IF Len(s) > 0 /\ s[1] = "'" THEN Tail(s) ELSE s
  IN  IF Len(s1) > 0 /\ s1[Len(s1)] = "'" THEN SubSeq(s1, 1, Len(s1) - 1) ELSE s1

(***************************************************************************)
(* TopicAnalyzer                                                           *)
(***************************************************************************)

\* an element of the topics array: a string, or another JSON value (a number)
TopicStr(name) == [isStr |-> TRUE, name |-> name]

TopicNonStr == [isStr |-> FALSE, name |-> <<"7">>]

\* topics[0] of an empty array
TopicUndefined == [isStr |-> FALSE, name |-> <<"undefined">>]

GeneralFeedback == TopicStr(<<"General Feedback">>)

\* the arrays the topic-identification answer holds
TaTopicArrays ==
  { <<>>,
    <<TopicStr(<<"a">>)>>,
    <<TopicStr(<<"a">>), TopicStr(<<"b">>)>>,
    <<TopicStr(<<"b">>), TopicStr(<<"a", "b">>)>>,
    <<TopicStr(<<"a">>), TopicStr(<<"a">>), TopicStr(<<"B">>)>>,
    <<TopicStr(<<"a">>), TopicNonStr, TopicStr(<<"b">>)>> }

\* how the generateText call of identifyTopics ended: it threw, its text holds
\* no [...] or one JSON.parse rejects, or it holds an array
TaIdentifyOutcomes ==
  { [threw |-> TRUE,  hasArray |-> FALSE, parses |-> FALSE, topics |-> <<>>],
    [threw |-> FALSE, hasArray |-> FALSE, parses |-> FALSE, topics |-> <<>>],
    [threw |-> FALSE, hasArray |-> TRUE,  parses |-> FALSE, topics |-> <<>>] }
  \cup { [threw |-> FALSE, hasArray |-> TRUE, parses |-> TRUE, topics |-> a] :
           a \in TaTopicArrays }

identifyTopics(outcome) ==
  IF outcome.threw \/ ~outcome.hasArray \/ ~outcome.parses
    THEN <<GeneralFeedback>>
    ELSE Slice(outcome.topics, 0, 8)

\* the answers of a per-mention classification call
TaAnswers ==
  { <<"a">>, <<"B">>, <<"a", "b">>, <<" ", "'", "A", "'", " ">>, <<"z">> }

TaAssignOutcomes ==
  { [threw |-> TRUE, text |-> <<>>] } \cup { [threw |-> FALSE, text |-> a] : a \in TaAnswers }

\* topics.find(t => assignedTopic.toLowerCase().includes(t.toLowerCase())),
\* scanning from index k; t.toLowerCase() throws on an element that is no string
RECURSIVE TaFind(_, _, _)
TaFind(topics, assignedTopic, k) ==
  IF k > Len(topics) THEN [found |-> FALSE, threw |-> FALSE, topic |-> TopicUndefined]
  ELSE IF ~topics[k].isStr THEN [found |-> FALSE, threw |-> TRUE, topic |-> TopicUndefined]
  ELSE IF includes(toLowerCase(assignedTopic), toLowerCase(topics[k].name))
    THEN [found |-> TRUE, threw |-> FALSE, topic |-> topics[k]]
  ELSE TaFind(topics, assignedTopic, k + 1)

TaFirstTopic(topics) == IF Len(topics) > 0 THEN topics[1] ELSE TopicUndefined

assignMentionToTopic(topics, outcome) ==
  IF outcome.threw THEN TaFirstTopic(topics)
  ELSE LET assignedTopic == stripQuotes(trim(outcome.text))
           match == TaFind(topics, assignedTopic, 1)
       IN  IF match.threw THEN TaFirstTopic(topics)
           ELSE IF match.found /\ match.topic.name # <<>> THEN match.topic
           ELSE TaFirstTopic(topics)

\* Map: set of a key that is present keeps the key's position
RECURSIVE TaInitClusters(_, _)
TaInitClusters(topics, k) ==
  IF k = 0 THEN <<>>
  ELSE LET before == TaInitClusters(topics, k - 1)
       IN  IF \E j \in 1..Len(before) : before[j].topic = topics[k]
             THEN before
             ELSE Append(before, [topic |-> topics[k], description |-> "", mentions |-> <<>>])

\* clusters.get(assignedTopic), and the push when the cluster exists
TaPush(clusters, topic, mention) ==
  [k \in 1..Len(clusters) |->
     IF clusters[k].topic = topic
       THEN [clusters[k] EXCEPT !.mentions = Append(@, mention)]
       ELSE clusters[k]]

\* sum of the scores, NaN as soon as one of them is
RECURSIVE SumScores(_)
SumScores(mentions) ==
  IF Len(mentions) = 0 THEN Num(0)
  ELSE LET rest == SumScores(SubSeq(mentions, 1, Len(mentions) - 1))
           last == mentions[Len(mentions)].score
       IN  IF rest.nan \/ last.nan THEN NaN ELSE Num(rest.v + last.v)

CountLabel(mentions, label) ==
  Cardinality({ k \in 1..Len(mentions) : mentions[k].sentiment = label })

\* a mean is kept as its sum and its count (count > 0); comparisons with a
\* constant are those of sum / count, false when the sum is NaN
Mean(mentions) == [sum |-> SumScores(mentions), n |-> Len(mentions)]

MeanLt(m, c) == ~m.sum.nan /\ m.sum.v < c * m.n

MeanLe(m, c) == ~m.sum.nan /\ m.sum.v <= c * m.n

\* (negative / mentions.length) * 100 >= c
PercentGe(part, whole, c) == part * 100 >= c * whole

\* variant: an average of exactly -10 counts as below -10
shouldAddressOf_inclusive(mentions) ==
  LET negative == CountLabel(mentions, "negative")
  IN  \/ PercentGe(negative, Len(mentions), 40)
      \/ (negative >= 3 /\ MeanLe(Mean(mentions), -10))

shouldAddressOf(mentions) ==
  LET negative == CountLabel(mentions, "negative")
  IN  \/ PercentGe(negative, Len(mentions), 40)
      \/ (negative >= 3 /\ MeanLt(Mean(mentions), -10))

priorityOf(mentions) ==
  LET negative == CountLabel(mentions, "negative")
      averageSentiment == Mean(mentions)
  IN  IF shouldAddressOf(mentions)
        THEN IF PercentGe(negative, Len(mentions), 60) \/ MeanLe(averageSentiment, -30)
               THEN "high"
             ELSE IF PercentGe(negative, Len(mentions), 50) \/ MeanLe(averageSentiment, -20)
               THEN "medium"
             ELSE "medium"
        ELSE "low"

analyzeCluster(cluster) ==
  [topic |-> cluster.topic,
   description |-> cluster.description,
   mentionCount |-> Len(cluster.mentions),
   averageSentiment |-> Mean(cluster.mentions),
   positive |-> CountLabel(cluster.mentions, "positive"),
   neutral |-> CountLabel(cluster.mentions, "neutral"),
   negative |-> CountLabel(cluster.mentions, "negative"),
   mentions |-> cluster.mentions,
   shouldAddress |-> shouldAddressOf(cluster.mentions),
   priority |-> priorityOf(cluster.mentions)]

priorityOrder(p) == CASE p = "high" -> 0 [] p = "medium" -> 1 [] OTHER -> 2

\* variant: the smaller cluster first
compareClusters_ascending(a, b) ==
  LET priorityDiff == priorityOrder(a.priority) - priorityOrder(b.priority)
  IN  IF priorityDiff # 0 THEN priorityDiff ELSE a.mentionCount - b.mentionCount

\* the comparator handed to sort
compareClusters(a, b) ==
  LET priorityDiff == priorityOrder(a.priority) - priorityOrder(b.priority)
  IN  IF priorityDiff # 0 THEN priorityDiff ELSE b.mentionCount - a.mentionCount

\* Array.prototype.sort is stable: an element goes behind every element that
\* does not have to follow it
SortInsert(sorted, x) ==
  LET after == { k \in 1..Len(sorted) : compareClusters(sorted[k], x) > 0 }
      pos == IF after = {} THEN Len(sorted) + 1
             ELSE CHOOSE k \in after : \A j \in after : k <= j
  IN  SubSeq(sorted, 1, pos - 1) \o <<x>> \o SubSeq(sorted, pos, Len(sorted))

RECURSIVE sortClusters(_)
sortClusters(list) ==
  IF Len(list) = 0 THEN <<>>
  ELSE SortInsert(sortClusters(SubSeq(list, 1, Len(list) - 1)), list[Len(list)])

analyzeClusters(clusters) ==
  sortClusters([k \in 1..Len(clusters) |-> analyzeCluster(clusters[k])])

\* batchSize of assignMentionsToTopics
TaBatchSize == 10

\* variant: the empty clusters stay
removeEmptyClusters_keepAll(clusters) == clusters

\* nonEmptyClusters of assignMentionsToTopics
removeEmptyClusters(clusters) == SelectSeq(clusters, LAMBDA c : Len(c.mentions) > 0)

\* the mentions clusterByTopics is handed: mention k has id k
TaMentionKinds ==
  { [sentiment |-> "negative", score |-> Num(-20)],
    [sentiment |-> "neutral",  score |-> Num(0)],
    [sentiment |-> "positive", score |-> Num(30)] }

TaInputs ==
  { [k \in 1..Len(t) |-> [id |-> k, sentiment |-> t[k].sentiment, score |-> t[k].score]] :
      t \in SeqsUpTo(TaMentionKinds, MaxMentions) }

\* indices of the batch that starts at 0-based index i
TaBatch(i, n) == { k \in 1..n : k > i /\ k <= i + TaBatchSize }

TaIdle ==
  /\ ta_pc = "idle"
  /\ ta_mentions = <<>>
  /\ ta_topics = <<>>
  /\ ta_clusters = <<>>
  /\ ta_i = 0
  /\ ta_pending = {}
  /\ ta_result = <<>>

TaInit ==
  /\ ta_pc = "start"
  /\ ta_mentions \in TaInputs
  /\ ta_topics = <<>>
  /\ ta_clusters = <<>>
  /\ ta_i = 0
  /\ ta_pending = {}
  /\ ta_result = <<>>

\* clusterByTopics up to the calls of the first batch: the empty-input return,
\* identifyTopics, the initialisation of clusters
TaIdentify ==
  /\ ta_pc = "start"
  /\ IF Len(ta_mentions) = 0
       THEN /\ ta_pc' = "done"
            /\ UNCHANGED <<ta_topics, ta_clusters, ta_pending>>
       ELSE \E outcome \in TaIdentifyOutcomes :
              LET topics == identifyTopics(outcome)
              IN  /\ ta_topics' = topics
                  /\ ta_clusters' = TaInitClusters(topics, Len(topics))
                  /\ ta_pending' = TaBatch(0, Len(ta_mentions))
                  /\ ta_pc' = "assign"
  /\ UNCHANGED <<ta_mentions, ta_i, ta_result>>
  /\ UNCHANGED taOthers

\* the call for one mention of the batch ends (in any order among the batch) and
\* its callback pushes the mention; the last one of a batch starts the next batch
TaAssign ==
  /\ ta_pc = "assign"
  /\ \E m \in ta_pending, outcome \in TaAssignOutcomes :
       LET assignedTopic == assignMentionToTopic(ta_topics, outcome)
           left == ta_pending \ {m}
           next == ta_i + TaBatchSize
       IN  /\ ta_clusters' = TaPush(ta_clusters, assignedTopic, ta_mentions[m])
           /\ IF left # {}
                THEN /\ ta_pending' = left
                     /\ UNCHANGED <<ta_i, ta_pc>>
                ELSE IF next < Len(ta_mentions)
                  THEN /\ ta_pending' = TaBatch(next, Len(ta_mentions))
                       /\ ta_i' = next
                       /\ UNCHANGED ta_pc
                  ELSE /\ ta_pending' = {}
                       /\ ta_i' = next
                       /\ ta_pc' = "describe"
  /\ UNCHANGED <<ta_mentions, ta_topics, ta_result>>
  /\ UNCHANGED taOthers

\* the rest of clusterByTopics: a description for every non-empty cluster (the
\* model's sentence, or the fallback sentence when its call fails), the removal
\* of the empty clusters, analyzeClusters
TaFinish ==
  /\ ta_pc = "describe"
  /\ \E failed \in SUBSET { k \in 1..Len(ta_clusters) : Len(ta_clusters[k].mentions) > 0 } :
       LET described ==
             [k \in 1..Len(ta_clusters) |->
                IF Len(ta_clusters[k].mentions) = 0 THEN ta_clusters[k]
                ELSE [ta_clusters[k] EXCEPT
                        !.description = IF k \in failed THEN "fallback" ELSE "generated"]]
           nonEmptyClusters == removeEmptyClusters(described)
       IN  /\ ta_clusters' = described
           /\ ta_result' = analyzeClusters(nonEmptyClusters)
  /\ ta_pc' = "done"
  /\ UNCHANGED <<ta_mentions, ta_topics, ta_i, ta_pending>>
  /\ UNCHANGED taOthers

(***************************************************************************)
(* analyzeClusters on clusters of up to MaxClusterSize mentions            *)
(***************************************************************************)

\* a cluster of the given numbers of negative, neutral and positive mentions
AnMentions(nNeg, nNeu, nPos, negScore, neuScore) ==
  [k \in 1..(nNeg + nNeu + nPos) |->
     IF k <= nNeg THEN [id |-> k, sentiment |-> "negative", score |-> negScore]
     ELSE IF k <= nNeg + nNeu THEN [id |-> k, sentiment |-> "neutral", score |-> neuScore]
     ELSE [id |-> k, sentiment |-> "positive", score |-> Num(10)]]

AnNegScores == { Num(n) : n \in {-100, -80, -75, -30, -27, -10} }

AnNeuScores == { Num(0), NaN }

AnInputs ==
  { << [topic |-> TopicStr(<<"a">>), description |-> "generated",
        mentions |-> AnMentions(c[1], c[2], c[3], x, y)] >> :
      c \in { d \in (0..MaxClusterSize) \X (0..MaxClusterSize) \X (0..MaxClusterSize) :
                d[1] + d[2] + d[3] >= 1 /\ d[1] + d[2] + d[3] <= MaxClusterSize },
      x \in AnNegScores, y \in AnNeuScores }

AnIdle ==
  /\ an_pc = "idle"
  /\ an_input = <<>>
  /\ an_output = <<>>

AnInit ==
  /\ an_pc = "start"
  /\ an_input \in AnInputs
  /\ an_output = <<>>

AnApply ==
  /\ an_pc = "start"
  /\ an_output' = analyzeClusters(an_input)
  /\ an_pc' = "done"
  /\ UNCHANGED an_input
  /\ UNCHANGED anOthers

(***************************************************************************)
(* RecommendationEngine                                                    *)
(***************************************************************************)

\* The text generateText resolved with, as parseRecommendationResponse reads it:
\*   hasObject   the pattern \{[\s\S]*\} matches somewhere
\*   parses      JSON.parse accepts the matched text
\*   issue, impact   the field's string, "" when the field is absent or empty
\*   isArray     Array.isArray(parsed.postSuggestions)
\*   posts       the ids of the post ideas of that array
ReObject(issue, impact, isArray, n) ==
  [threw |-> FALSE, hasObject |-> TRUE, parses |-> TRUE,
   issue |-> issue, impact |-> impact, isArray |-> isArray, posts |-> [k \in 1..n |-> k]]

ReNoObject(threw, hasObject) ==
  [threw |-> threw, hasObject |-> hasObject, parses |-> FALSE,
   issue |-> "", impact |-> "", isArray |-> FALSE, posts |-> <<>>]

ReOutcomes ==
  { ReNoObject(TRUE, FALSE), ReNoObject(FALSE, FALSE), ReNoObject(FALSE, TRUE),
    ReObject("the issue", "the impact", TRUE, 3),
    ReObject("the issue", "the impact", TRUE, 5),
    ReObject("", "the impact", TRUE, 3),
    ReObject("the issue", "", TRUE, 4),
    ReObject("the issue", "the impact", FALSE, 0),
    ReObject("", "", FALSE, 0) }

\* variant: a missing field is a parse failure
parseRecommendationResponse_strict(outcome) ==
  IF ~outcome.hasObject \/ ~outcome.parses \/ outcome.issue = "" \/ outcome.impact = ""
     \/ ~outcome.isArray
    THEN [threw |-> TRUE, issue |-> "", impact |-> "", postSuggestions |-> <<>>]
    ELSE [threw |-> FALSE, issue |-> outcome.issue, impact |-> outcome.impact,
          postSuggestions |-> outcome.posts]

parseRecommendationResponse(outcome) ==
  IF ~outcome.hasObject \/ ~outcome.parses
    THEN [threw |-> TRUE, issue |-> "", impact |-> "", postSuggestions |-> <<>>]
    ELSE [threw |-> FALSE,
          issue |-> IF outcome.issue # "" THEN outcome.issue ELSE "Issue not identified",
          impact |-> IF outcome.impact # "" THEN outcome.impact ELSE "Impact unclear",
          postSuggestions |-> IF outcome.isArray THEN outcome.posts ELSE <<>>]

RecNull == [isNull |-> TRUE]

generateRecommendation(cluster, outcome) ==
  IF outcome.threw THEN RecNull
  ELSE LET parsed == parseRecommendationResponse(outcome)
       IN  IF parsed.threw THEN RecNull
           ELSE [isNull |-> FALSE,
                 topic |-> cluster.topic,
                 priority |-> cluster.priority,
                 issue |-> parsed.issue,
                 impact |-> parsed.impact,
                 postSuggestions |-> Slice(parsed.postSuggestions, 0, 4),
                 affectedMentions |-> cluster.negative]

\* the stable sort by priorityOrder alone
RecInsert(sorted, x) ==
  LET after == { k \in 1..Len(sorted) :
                   priorityOrder(sorted[k].priority) - priorityOrder(x.priority) > 0 }
      pos == IF after = {} THEN Len(sorted) + 1
             ELSE CHOOSE k \in after : \A j \in after : k <= j
  IN  SubSeq(sorted, 1, pos - 1) \o <<x>> \o SubSeq(sorted, pos, Len(sorted))

RECURSIVE sortRecommendations(_)
sortRecommendations(list) ==
  IF Len(list) = 0 THEN <<>>
  ELSE RecInsert(sortRecommendations(SubSeq(list, 1, Len(list) - 1)), list[Len(list)])

\* variant: every cluster is addressed
clustersToAddress_all(clusters) == clusters

clustersToAddress(clusters) == SelectSeq(clusters, LAMBDA c : c.shouldAddress)

\* the clusters generateRecommendations is handed are those analyzeClusters
\* makes of a Map of clusters; cluster k is named by k letters
ReMentionLists ==
  { << [id |-> 1, sentiment |-> "negative", score |-> Num(-40)] >>,
    << [id |-> 1, sentiment |-> "negative", score |-> Num(-20)],
       [id |-> 2, sentiment |-> "positive", score |-> Num(30)] >>,
    << [id |-> 1, sentiment |-> "positive", score |-> Num(30)] >> }

ReInputs ==
  { analyzeClusters([k \in 1..Len(t) |->
                       [topic |-> TopicStr([j \in 1..k |-> "a"]),
                        description |-> "generated",
                        mentions |-> t[k]]]) :
      t \in SeqsUpTo(ReMentionLists, MaxRecClusters) }

ReIdle ==
  /\ re_pc = "idle"
  /\ re_clusters = <<>>
  /\ re_pending = {}
  /\ re_outcomes = <<>>
  /\ re_recs = <<>>
  /\ re_calls = 0
  /\ re_result = <<>>

ReInit ==
  /\ re_pc = "start"
  /\ re_clusters \in ReInputs
  /\ re_pending = {}
  /\ re_outcomes = <<>>
  /\ re_recs = <<>>
  /\ re_calls = 0
  /\ re_result = <<>>

\* generateRecommendations up to Promise.all: one call per cluster to address
ReStart ==
  /\ re_pc = "start"
  /\ LET n == Len(clustersToAddress(re_clusters))
     IN  /\ re_pc' = IF n = 0 THEN "done" ELSE "awaiting"
         /\ re_pending' = 1..n
         /\ re_calls' = n
         /\ re_outcomes' = [k \in 1..n |-> ReNoObject(FALSE, FALSE)]
         /\ re_recs' = [k \in 1..n |-> RecNull]
  /\ UNCHANGED <<re_clusters, re_result>>
  /\ UNCHANGED reOthers

\* one of the calls in flight ends and its generateRecommendation returns; when
\* it is the last one, Promise.all resolves and the list is filtered and sorted
ReComplete ==
  /\ re_pc = "awaiting"
  /\ \E k \in re_pending, outcome \in ReOutcomes :
       LET recs == [re_recs EXCEPT
                      ![k] = generateRecommendation(clustersToAddress(re_clusters)[k], outcome)]
       IN  /\ re_recs' = recs
           /\ re_outcomes' = [re_outcomes EXCEPT ![k] = outcome]
           /\ re_pending' = re_pending \ {k}
           /\ IF re_pending = {k}
                THEN /\ re_pc' = "done"
                     /\ re_result' =
                          sortRecommendations(SelectSeq(recs, LAMBDA r : ~r.isNull))
                ELSE UNCHANGED <<re_pc, re_result>>
  /\ UNCHANGED <<re_clusters, re_calls>>
  /\ UNCHANGED reOthers

(***************************************************************************)
(* TopicGenerator                                                          *)
(***************************************************************************)

\* an element of the array the model answered with
TgStr(s) == [isStr |-> TRUE, v |-> s]

TgNonStr == [isStr |-> FALSE, v |-> <<"7">>]

TgElems ==
  { TgStr(<<"a">>), TgStr(<<" ", "a", " ">>), TgStr(<<"b">>), TgStr(<<" ">>), TgStr(<<>>),
    TgNonStr }

\* the text the model answered with: whether /\[[\s\S]*\]/ matches, whether
\* JSON.parse accepts the match, and the elements of the array it yields
TgResponses ==
  { [hasArray |-> FALSE, parses |-> FALSE, elems |-> <<>>],
    [hasArray |-> TRUE,  parses |-> FALSE, elems |-> <<>>] }
  \cup { [hasArray |-> TRUE, parses |-> TRUE, elems |-> e] : e \in SeqsUpTo(TgElems, MaxTopicElems) }

TgNoResponse == [hasArray |-> FALSE, parses |-> FALSE, elems |-> <<>>]

\* how the generateText call ended
TgOutcomes ==
  { [threw |-> TRUE, resp |-> TgNoResponse] }
  \cup { [threw |-> FALSE, resp |-> r] : r \in TgResponses }

TgCompanies == { <<"c", "o">>, <<" ">> }

\* TopicGenerator.parseTopics
parseTopics(resp) ==
  IF ~resp.hasArray THEN <<>>
  ELSE IF ~resp.parses THEN <<>>
  ELSE LET kept == SelectSeq(resp.elems, LAMBDA t : t.isStr /\ Len(trim(t.v)) > 0)
       IN  [k \in 1..Len(kept) |-> trim(kept[k].v)]

\* TopicGenerator.generateTopics; count only enters the prompt
generateTopics(company, count, outcome) ==
  IF outcome.threw THEN <<company>> ELSE parseTopics(outcome.resp)

TgIdle ==
  /\ tg_pc = "idle"
  /\ tg_company = <<>>
  /\ tg_count = 0
  /\ tg_outcome = [threw |-> FALSE, resp |-> TgNoResponse]
  /\ tg_result = <<>>

TgInit ==
  /\ tg_pc = "call"
  /\ tg_company \in TgCompanies
  /\ tg_count \in 1..MaxTopicCount
  /\ tg_outcome = [threw |-> FALSE, resp |-> TgNoResponse]
  /\ tg_result = <<>>

\* the model call settles and generateTopics returns
TgReturn ==
  /\ tg_pc = "call"
  /\ \E outcome \in TgOutcomes :
       /\ tg_outcome' = outcome
       /\ tg_result' = generateTopics(tg_company, tg_count, outcome)
  /\ tg_pc' = "done"
  /\ UNCHANGED <<tg_company, tg_count>>
  /\ UNCHANGED tgOthers

(***************************************************************************)
(* RedditClient                                                            *)
(***************************************************************************)

\* a method returns a value or throws
Returned(v) == [threw |-> FALSE, value |-> v]

Thrown == [threw |-> TRUE, value |-> <<>>]

\* a child of data.children of a search answer: whether title and text mention
\* the company, whether an irrelevant pattern matches, whether data.title and
\* data.selftext are strings
RcPost(id, mentions, irrelevant, wellFormed) ==
  [id |-> id, mentions |-> mentions, irrelevant |-> irrelevant, wellFormed |-> wellFormed]

RcPostKinds ==
  { [mentions |-> TRUE,  irrelevant |-> FALSE, wellFormed |-> TRUE],
    [mentions |-> TRUE,  irrelevant |-> TRUE,  wellFormed |-> TRUE],
    [mentions |-> FALSE, irrelevant |-> FALSE, wellFormed |-> TRUE],
    [mentions |-> FALSE, irrelevant |-> FALSE, wellFormed |-> FALSE] }

RcChildren ==
  { [k \in 1..Len(kinds) |->
       RcPost(k, kinds[k].mentions, kinds[k].irrelevant, kinds[k].wellFormed)] :
      kinds \in SeqsUpTo(RcPostKinds, MaxPosts) }

\* the body of a search answer: null, an object without data, data.children
\* that is no array, or a listing
RcSearchPayloads ==
  { [shape |-> sh, children |-> <<>>] : sh \in {"null", "noData", "childrenNotArray"} }
  \cup { [shape |-> "listing", children |-> c] : c \in RcChildren }

\* a node of a reply tree: a comment (kind t1) with or without a body, a
\* "more" stub, or null; the id of a node is its path from the root
RcNodeKinds ==
  { [kind |-> "t1", body |-> TRUE], [kind |-> "t1", body |-> FALSE],
    [kind |-> "more", body |-> FALSE], [kind |-> "null", body |-> FALSE] }

\* the reply forests of exactly n nodes, ids left out
RECURSIVE RcShapes(_)
RcShapes(n) ==
  IF n = 0 THEN { <<>> }
  ELSE UNION { { <<[kind |-> nk.kind, body |-> nk.body, id |-> <<>>, replies |-> r]>> \o rest :
                   nk \in { x \in RcNodeKinds : k = 1 \/ x.kind = "t1" },
                   r \in RcShapes(k - 1),
                   rest \in RcShapes(n - k) } : k \in 1..n }

RECURSIVE RcLabel(_, _)
RcLabel(forest, prefix) ==
  [k \in 1..Len(forest) |->
     [forest[k] EXCEPT !.id = prefix \o <<k>>,
                       !.replies = RcLabel(forest[k].replies, prefix \o <<k>>)]]

RcForests == UNION { { RcLabel(f, <<>>) : f \in RcShapes(n) } : n \in 0..MaxTreeNodes }

\* the body of a comments answer: no array, an array shorter than 2, a second
\* element without data.children, data.children that cannot be iterated, or
\* a listing of comments
RcCommentPayloads ==
  { [shape |-> sh, children |-> <<>>] :
      sh \in {"notArray", "short", "noChildren", "childrenNotIterable"} }
  \cup { [shape |-> "listing", children |-> f] : f \in RcForests }

RcNoPayload == [shape |-> "null", children |-> <<>>]

\* how the fetch of a call ended: it threw, the status was no success, the
\* content type was missing or not JSON, response.json() threw, or a body
RcOutcomes(payloads) ==
  { [netThrows |-> TRUE,  ok |-> FALSE, contentType |-> "none", jsonThrows |-> FALSE,
     payload |-> RcNoPayload],
    [netThrows |-> FALSE, ok |-> FALSE, contentType |-> "json", jsonThrows |-> FALSE,
     payload |-> RcNoPayload],
    [netThrows |-> FALSE, ok |-> TRUE,  contentType |-> "none", jsonThrows |-> FALSE,
     payload |-> RcNoPayload],
    [netThrows |-> FALSE, ok |-> TRUE,  contentType |-> "html", jsonThrows |-> FALSE,
     payload |-> RcNoPayload],
    [netThrows |-> FALSE, ok |-> TRUE,  contentType |-> "json", jsonThrows |-> TRUE,
     payload |-> RcNoPayload] }
  \cup { [netThrows |-> FALSE, ok |-> TRUE, contentType |-> "json", jsonThrows |-> FALSE,
          payload |-> p] : p \in payloads }

\* the try block of search
searchTry(outcome) ==
  IF outcome.netThrows THEN Thrown
  ELSE IF ~outcome.ok THEN Returned(<<>>)
  ELSE IF outcome.contentType # "json" THEN Returned(<<>>)
  ELSE IF outcome.jsonThrows THEN Thrown
  ELSE IF outcome.payload.shape # "listing" THEN Returned(<<>>)
  ELSE Returned(outcome.payload.children)

\* variant: no catch around the body
search_noCatch(outcome) == searchTry(outcome)

\* RedditClient.search
search(outcome) ==
  LET tried == searchTry(outcome)
  IN  IF tried.threw THEN Returned(<<>>) ELSE tried

\* the company filter of the second RedditClient.search
RcMentionsCompany(post) == post.mentions /\ ~post.irrelevant

\* the try block of the second RedditClient.search; hasCompany: options.company
\* is given
searchStrictTry(outcome, limit, hasCompany) ==
  IF outcome.netThrows THEN Thrown
  ELSE IF ~outcome.ok THEN Returned(<<>>)
  ELSE IF outcome.contentType # "json" THEN Returned(<<>>)
  ELSE IF outcome.jsonThrows THEN Thrown
  ELSE IF outcome.payload.shape # "listing" THEN Returned(<<>>)
  ELSE LET posts == outcome.payload.children
       IN  IF ~hasCompany THEN Returned(Slice(posts, 0, limit))
           ELSE IF \E k \in 1..Len(posts) : ~posts[k].wellFormed THEN Thrown
           ELSE Returned(Slice(SelectSeq(posts, RcMentionsCompany), 0, limit))

\* the second RedditClient.search
searchStrict(outcome, limit, hasCompany) ==
  LET tried == searchStrictTry(outcome, limit, hasCompany)
  IN  IF tried.threw THEN Returned(<<>>) ELSE tried

\* the comment pushed for a node
RcComment(child) == [id |-> child.id]

\* variant: the replies of a comment follow its later siblings
RECURSIVE flattenFrom_repliesLast(_, _)
flattenFrom_repliesLast(children, k) ==
  IF k > Len(children) THEN Returned(<<>>)
  ELSE LET child == children[k]
       IN  IF child.kind = "null" THEN Thrown
           ELSE LET rest == flattenFrom_repliesLast(children, k + 1)
                    isComment == child.kind = "t1" /\ child.body
                    sub == IF isComment THEN flattenFrom_repliesLast(child.replies, 1)
                           ELSE Returned(<<>>)
                IN  IF sub.threw \/ rest.threw THEN Thrown
                    ELSE Returned((IF isComment THEN <<RcComment(child)>> ELSE <<>>)
                                  \o rest.value \o sub.value)

\* RedditClient.flattenComments: what the loop pushes from child k on
RECURSIVE flattenFrom(_, _)
flattenFrom(children, k) ==
  IF k > Len(children) THEN Returned(<<>>)
  ELSE LET child == children[k]
       IN  IF child.kind = "null" THEN Thrown
           ELSE LET rest == flattenFrom(children, k + 1)
                    isComment == child.kind = "t1" /\ child.body
                    sub == IF isComment THEN flattenFrom(child.replies, 1) ELSE Returned(<<>>)
                IN  IF sub.threw \/ rest.threw THEN Thrown
                    ELSE Returned((IF isComment THEN <<RcComment(child)>> ELSE <<>>)
                                  \o sub.value \o rest.value)

flattenComments(children) == flattenFrom(children, 1)

\* the try block of fetchComments
fetchCommentsTry(outcome) ==
  IF outcome.netThrows THEN Thrown
  ELSE IF ~outcome.ok THEN Returned(<<>>)
  ELSE IF outcome.contentType # "json" THEN Returned(<<>>)
  ELSE IF outcome.jsonThrows THEN Thrown
  ELSE IF outcome.payload.shape \in {"notArray", "short", "noChildren"} THEN Returned(<<>>)
  ELSE IF outcome.payload.shape = "childrenNotIterable" THEN Thrown
  ELSE flattenComments(outcome.payload.children)

\* RedditClient.fetchComments
fetchComments(outcome) ==
  LET tried == fetchCommentsTry(outcome)
  IN  IF tried.threw THEN Returned(<<>>) ELSE tried

RcNoOutcome ==
  [netThrows |-> FALSE, ok |-> FALSE, contentType |-> "none", jsonThrows |-> FALSE,
   payload |-> RcNoPayload]

RcNoArgs == [limit |-> 0, hasCompany |-> FALSE]

RcIdle ==
  /\ rc_pc = "idle"
  /\ rc_op = "none"
  /\ rc_args = RcNoArgs
  /\ rc_outcome = RcNoOutcome
  /\ rc_result = Returned(<<>>)

RcInit ==
  /\ rc_pc = "call"
  /\ \/ rc_op \in {"search", "fetchComments"} /\ rc_args = RcNoArgs
     \/ rc_op = "searchStrict" /\ rc_args \in [limit : 1..2, hasCompany : BOOLEAN]
  /\ rc_outcome = RcNoOutcome
  /\ rc_result = Returned(<<>>)

RcSearch ==
  /\ rc_pc = "call"
  /\ rc_op = "search"
  /\ \E outcome \in RcOutcomes(RcSearchPayloads) :
       /\ rc_outcome' = outcome
       /\ rc_result' = search(outcome)
  /\ rc_pc' = "done"
  /\ UNCHANGED <<rc_op, rc_args>>
  /\ UNCHANGED rcOthers

RcSearchStrict ==
  /\ rc_pc = "call"
  /\ rc_op = "searchStrict"
  /\ \E outcome \in RcOutcomes(RcSearchPayloads) :
       /\ rc_outcome' = outcome
       /\ rc_result' = searchStrict(outcome, rc_args.limit, rc_args.hasCompany)
  /\ rc_pc' = "done"
  /\ UNCHANGED <<rc_op, rc_args>>
  /\ UNCHANGED rcOthers

RcFetchComments ==
  /\ rc_pc = "call"
  /\ rc_op = "fetchComments"
  /\ \E outcome \in RcOutcomes(RcCommentPayloads) :
       /\ rc_outcome' = outcome
       /\ rc_result' = fetchComments(outcome)
  /\ rc_pc' = "done"
  /\ UNCHANGED <<rc_op, rc_args>>
  /\ UNCHANGED rcOthers

(***************************************************************************)
(* HistoryGenerator                                                        *)
(***************************************************************************)

\* a number that is a fraction num / den, den > 0, or NaN
Frac(num, den) == [nan |-> FALSE, num |-> num, den |-> den]

FracNaN == [nan |-> TRUE, num |-> 0, den |-> 1]

\* Math.min(c, x) and Math.max(c, x) of an integer c and a fraction x
FracMin(c, x) ==
  IF x.nan THEN FracNaN ELSE IF c * x.den < x.num THEN Frac(c, 1) ELSE x

FracMax(c, x) ==
  IF x.nan THEN FracNaN ELSE IF c * x.den > x.num THEN Frac(c, 1) ELSE x

\* Math.random() is one of 0, 1/2, 3/4: its values in units of 1 / HgRandomDen
HgRandomDen == 4

HgRandoms == {0, 2, 3}

\* milliseconds of an hour
HgHour == 3600000

HgNow == 100 * HgHour + 123

HgScores == { Num(-150), Num(0), Num(40), Num(150), NaN }

\* the score of the point i hours back, with r1 and r2 the two random numbers
\* drawn: historicalBase + randomBase + variance, over 2 * HgRandomDen * hours,
\* clamped
HgScore(currentScore, hours, i, r1, r2) ==
  LET den == 2 * HgRandomDen * hours
      \* variance = (r1 - 0.5) * 30 * (i / hours)
      variance == (2 * r1 - HgRandomDen) * 30 * i
      \* historicalBase = currentScore * (1 - i / hours)
      historicalBase == currentScore.v * (hours - i) * 2 * HgRandomDen
      \* randomBase = (r2 - 0.5) * 100 * (1 - trendWeight)
      randomBase == (2 * r2 - HgRandomDen) * 100 * i
      sum == IF currentScore.nan THEN FracNaN
             ELSE Frac(historicalBase + randomBase + variance, den)
  IN  FracMax(-100, FracMin(100, sum))

\* toISOString names the instant to the millisecond
HgTimestamp(ms) == [ms |-> ms]

HgIdle ==
  /\ hg_pc = "idle"
  /\ hg_currentScore = Num(0)
  /\ hg_hours = 0
  /\ hg_now = 0
  /\ hg_i = 0
  /\ hg_history = <<>>

HgInit ==
  /\ hg_pc = "loop"
  /\ hg_currentScore \in HgScores
  /\ hg_hours \in 1..MaxHours
  /\ hg_now = HgNow
  /\ hg_i = hg_hours - 1
  /\ hg_history = <<>>

\* one pass of the loop
HgPoint ==
  /\ hg_pc = "loop"
  /\ hg_i >= 0
  /\ \E r1, r2 \in HgRandoms :
       hg_history' = Append(hg_history,
                            [timestamp |-> HgTimestamp(hg_now - hg_i * HgHour),
                             score |-> HgScore(hg_currentScore, hg_hours, hg_i, r1, r2)])
  /\ hg_i' = hg_i - 1
  /\ UNCHANGED <<hg_pc, hg_currentScore, hg_hours, hg_now>>
  /\ UNCHANGED hgOthers

\* the loop is over and history is returned
HgReturn ==
  /\ hg_pc = "loop"
  /\ hg_i < 0
  /\ hg_pc' = "done"
  /\ UNCHANGED <<hg_currentScore, hg_hours, hg_now, hg_i, hg_history>>
  /\ UNCHANGED hgOthers

(***************************************************************************)
(* SocialMediaGenerator                                                    *)
(***************************************************************************)

SmPlatforms == {"twitter", "linkedin", "facebook", "instagram"}

\* postIdea.angle: whether it includes "data" or "stats", "behind" or "team",
\* "product" or "feature"
SmAngles ==
  { [data |-> FALSE, behind |-> FALSE, product |-> FALSE],
    [data |-> TRUE,  behind |-> TRUE,  product |-> FALSE],
    [data |-> FALSE, behind |-> FALSE, product |-> TRUE] }

\* the text the model answered with; when it is wrapped in a JSON object with
\* a content field, inner is what the pattern captures
SmText(text) == [wrapped |-> FALSE, text |-> text, inner |-> <<>>]

SmWrapped(inner) == [wrapped |-> TRUE, text |-> <<"{", "}">>, inner |-> inner]

SmResponses ==
  { SmText(<<"h", "i">>),
    SmText(<<" ", "'", "h", "i", "'", " ">>),
    SmText(<<"h", "i", "\\n", "#", "a", "b", " ", "#", " ", "#", "1">>),
    SmWrapped(<<"h", "i", " ", "#", "a">>) }

SmOutcomes ==
  { [threw |-> TRUE, resp |-> SmText(<<>>)] }
  \cup { [threw |-> FALSE, resp |-> r] : r \in SmResponses }

\* replace(/\\n/g, "\n").replace(/\\"/g, '"'); an escape is one element
SmUnescape(s) ==
  [k \in 1..Len(s) |-> CASE s[k] = "\\n" -> "\n" [] s[k] = "\\q" -> "q" [] OTHER -> s[k]]

\* generatePlatformContent after the model call
generatePlatformContent(resp) ==
  LET trimmed == trim(resp.text)
      content == IF resp.wrapped THEN resp.inner ELSE trimmed
  IN  SmUnescape(stripQuotes(content))

SmWordChars == {"a", "b", "h", "i", "1", "_"}

\* the length of the run of word characters that starts at position k
RECURSIVE SmWordRun(_, _)
SmWordRun(s, k) ==
  IF k <= Len(s) /\ s[k] \in SmWordChars THEN 1 + SmWordRun(s, k + 1) ELSE 0

\* content.match(/#[\w]+/g) || []
extractHashtags(content) ==
  LET starts == { k \in 1..Len(content) : content[k] = "#" /\ SmWordRun(content, k + 1) > 0 }
      nth(n) == CHOOSE k \in starts : Cardinality({ j \in starts : j < k }) = n - 1
  IN  [n \in 1..Cardinality(starts) |->
         SubSeq(content, nth(n), nth(n) + SmWordRun(content, nth(n) + 1))]

\* suggestMedia
suggestMedia(platform, angle) ==
  IF angle.data THEN "chart or infographic"
  ELSE IF angle.behind THEN "behind-the-scenes photo"
  ELSE IF angle.product THEN "product demo video"
  ELSE CASE platform = "twitter" -> "infographic, chart, or branded image"
         [] platform = "linkedin" -> "professional photo, chart, or document preview"
         [] platform = "facebook" -> "photo, video, or link preview"
         [] platform = "instagram" -> "high-quality photo or video"
         [] OTHER -> "relevant visual content"

\* variant: a failed call yields an empty post
generateContent_swallow(request, outcome) ==
  Returned([platform |-> request.platform, content |-> <<>>, hashtags |-> <<>>,
            characterCount |-> 0,
            mediaRecommendation |-> suggestMedia(request.platform, request.angle)])

\* SocialMediaGenerator.generateContent: the catch logs and throws again
generateContent(request, outcome) ==
  IF outcome.threw THEN Thrown
  ELSE LET content == generatePlatformContent(outcome.resp)
       IN  Returned([platform |-> request.platform,
                     content |-> content,
                     hashtags |-> extractHashtags(content),
                     characterCount |-> Len(content),
                     mediaRecommendation |-> suggestMedia(request.platform, request.angle)])

(***************************************************************************)
(* The lower-level stages, one call each                                   *)
(***************************************************************************)

StStages ==
  { "topicGeneration", "search", "fetchComments", "relevanceFilter", "sentiment",
    "clustering", "recommendation", "content" }

\* assignMentionsToTopics with every per-mention call ending the same way
RECURSIVE StAssignAll(_, _, _, _, _)
StAssignAll(clusters, topics, mentions, outcome, k) ==
  IF k > Len(mentions) THEN clusters
  ELSE StAssignAll(TaPush(clusters, assignMentionToTopic(topics, outcome), mentions[k]),
                   topics, mentions, outcome, k + 1)

\* TopicAnalyzer.clusterByTopics, given how the call of identifyTopics, the
\* per-mention calls and the description calls ended
clusterByTopics(mentions, identified, assigned, descriptionFails) ==
  IF Len(mentions) = 0 THEN <<>>
  ELSE LET topics == identifyTopics(identified)
           clusters == StAssignAll(TaInitClusters(topics, Len(topics)), topics, mentions,
                                   assigned, 1)
           described ==
             [k \in 1..Len(clusters) |->
                IF Len(clusters[k].mentions) = 0 THEN clusters[k]
                ELSE [clusters[k] EXCEPT
                        !.description = IF descriptionFails THEN "fallback" ELSE "generated"]]
       IN  analyzeClusters(removeEmptyClusters(described))

StIdle ==
  /\ st_pc = "idle"
  /\ st_stage = "none"
  /\ st_input = <<>>
  /\ st_failed = FALSE
  /\ st_result = Returned(<<>>)

StInit ==
  /\ st_pc = "call"
  /\ st_stage \in StStages
  /\ st_input = <<>>
  /\ st_failed = FALSE
  /\ st_result = Returned(<<>>)

StTopicGeneration ==
  /\ st_pc = "call"
  /\ st_stage = "topicGeneration"
  /\ \E company \in TgCompanies, outcome \in TgOutcomes :
       /\ st_input' = company
       /\ st_failed' = outcome.threw
       /\ st_result' = Returned(generateTopics(company, 5, outcome))
  /\ st_pc' = "done"
  /\ UNCHANGED st_stage
  /\ UNCHANGED stOthers

StSearch ==
  /\ st_pc = "call"
  /\ st_stage = "search"
  /\ \E outcome \in RcOutcomes(RcSearchPayloads) :
       /\ st_failed' = outcome.netThrows
       /\ st_result' = search(outcome)
  /\ st_pc' = "done"
  /\ UNCHANGED <<st_stage, st_input>>
  /\ UNCHANGED stOthers

StFetchComments ==
  /\ st_pc = "call"
  /\ st_stage = "fetchComments"
  /\ \E outcome \in RcOutcomes(RcCommentPayloads) :
       /\ st_failed' = outcome.netThrows
       /\ st_result' = fetchComments(outcome)
  /\ st_pc' = "done"
  /\ UNCHANGED <<st_stage, st_input>>
  /\ UNCHANGED stOthers

StRelevanceFilter ==
  /\ st_pc = "call"
  /\ st_stage = "relevanceFilter"
  /\ \E batch \in { b \in RfInputs : Len(b) \in 1..MaxBatchSize } :
       \E outcome \in RfOutcomes(batch) :
         /\ st_input' = batch
         /\ st_failed' = outcome.threw
         /\ st_result' = Returned(filterBatch(batch, outcome))
  /\ st_pc' = "done"
  /\ UNCHANGED st_stage
  /\ UNCHANGED stOthers

StSentiment ==
  /\ st_pc = "call"
  /\ st_stage = "sentiment"
  /\ \E outcome \in SaOutcomes :
       /\ st_failed' = outcome.threw
       /\ st_result' = Returned(analyze(outcome))
  /\ st_pc' = "done"
  /\ UNCHANGED <<st_stage, st_input>>
  /\ UNCHANGED stOthers

StClustering ==
  /\ st_pc = "call"
  /\ st_stage = "clustering"
  /\ \E mentions \in TaInputs, identified \in TaIdentifyOutcomes,
        assigned \in TaAssignOutcomes, descriptionFails \in BOOLEAN :
       /\ st_input' = mentions
       /\ st_failed' = (Len(mentions) > 0
                        /\ (identified.threw \/ assigned.threw \/ descriptionFails))
       /\ st_result' = Returned(clusterByTopics(mentions, identified, assigned,
                                                descriptionFails))
  /\ st_pc' = "done"
  /\ UNCHANGED st_stage
  /\ UNCHANGED stOthers

StRecommendation ==
  /\ st_pc = "call"
  /\ st_stage = "recommendation"
  /\ \E clusters \in { c \in ReInputs : Len(c) > 0 } :
       \E outcome \in ReOutcomes :
         /\ st_input' = clusters[1]
         /\ st_failed' = outcome.threw
         /\ st_result' = Returned(generateRecommendation(clusters[1], outcome))
  /\ st_pc' = "done"
  /\ UNCHANGED st_stage
  /\ UNCHANGED stOthers

StContent ==
  /\ st_pc = "call"
  /\ st_stage = "content"
  /\ \E request \in [platform : SmPlatforms, angle : SmAngles], outcome \in SmOutcomes :
       /\ st_input' = request
       /\ st_failed' = outcome.threw
       /\ st_result' = generateContent(request, outcome)
  /\ st_pc' = "done"
  /\ UNCHANGED st_stage
  /\ UNCHANGED stOthers

(***************************************************************************)
(* The sentiment route: GET                                                *)
(***************************************************************************)

\* batchSize handed to filterRelevant
RtBatchSize == 15

\* total number of posts asked for over all topics
RtTotalPosts == 15

\* number of posts whose comments are fetched
RtPostsToFetch == 5

\* fewer relevant comments than this and the posts are analyzed instead
RtMinComments == 5

\* at most this many posts, or this many comments, are analyzed
RtMaxPostItems == 10

RtMaxCommentItems == 20

\* display text of a mention is cut at this length
RtDisplayLength == 200

Company == <<"c", "o">>

\* count handed to generateTopics
RtTopicCount == 5

RtTopicNames == <<"1", "2", "3", "4">>

\* how the model call of generateTopics ended in a run of the route: it threw,
\* it answered without an array, with an array that does not parse, with an
\* array of blanks, or with an array of n topics
RtTopicOutcomes ==
  { [threw |-> TRUE, resp |-> TgNoResponse],
    [threw |-> FALSE, resp |-> [hasArray |-> FALSE, parses |-> FALSE, elems |-> <<>>]],
    [threw |-> FALSE, resp |-> [hasArray |-> TRUE, parses |-> FALSE, elems |-> <<>>]],
    [threw |-> FALSE, resp |-> [hasArray |-> TRUE, parses |-> TRUE, elems |-> <<TgStr(<<" ">>)>>]] }
  \cup { [threw |-> FALSE,
          resp |-> [hasArray |-> TRUE, parses |-> TRUE,
                    elems |-> [k \in 1..n |-> TgStr(<<"t", RtTopicNames[k]>>)]]] :
           n \in 0..MaxRouteTopics }

\* variant: the topics are searched as generated
topicsOrCompany_asGenerated(generated, company) == generated

\* if (topics.length === 0) topics.push(company)
topicsOrCompany(generated, company) ==
  IF Len(generated) = 0 THEN Append(generated, company) ELSE generated

\* a / 0 of a positive a
Infinity == "Infinity"

\* Math.ceil(a / b), a > 0, b >= 0
CeilDiv(a, b) == IF b = 0 THEN Infinity ELSE (a + b - 1) \div b

\* the posts a search answers with; a post is its id and the search it came from
RtSearchSamples ==
  { <<>>, <<1, 2>>, <<2, 3>>, [k \in 1..(RtMaxPostItems + 1) |-> k] }

RtPosts(ids, t) ==
  [k \in 1..Len(ids) |-> [id |-> <<ids[k]>>, from |-> t, len |-> 40 + 200 * (ids[k] % 2)]]

\* variant: a key keeps its first entry
RECURSIVE MapFromEntries_keepFirst(_, _)
MapFromEntries_keepFirst(posts, k) ==
  IF k = 0 THEN <<>>
  ELSE LET before == MapFromEntries_keepFirst(posts, k - 1)
       IN  IF \E j \in 1..Len(before) : before[j].id = posts[k].id
             THEN before
             ELSE Append(before, posts[k])

\* Array.from(new Map(entries).values()): a key keeps the position of its first
\* entry and the value of its last
RECURSIVE MapFromEntries(_, _)
MapFromEntries(posts, k) ==
  IF k = 0 THEN <<>>
  ELSE LET before == MapFromEntries(posts, k - 1)
       IN  IF \E j \in 1..Len(before) : before[j].id = posts[k].id
             THEN [j \in 1..Len(before) |->
                     IF before[j].id = posts[k].id THEN posts[k] ELSE before[j]]
             ELSE Append(before, posts[k])

uniquePostsOf(allPosts) == MapFromEntries(allPosts, Len(allPosts))

\* the flattened comments a fetch answers with: none, or six opinions and a
\* short remark
RtCommentSamples ==
  { <<>>, [k \in 1..7 |-> IF k = 4 THEN TextShort ELSE TextOpinion] }

\* formattedComments
RtFormat(texts, post) ==
  [k \in 1..Len(texts) |-> [id |-> post.id \o <<k>>, text |-> texts[k], postTitle |-> post.id]]

\* redditClient.extractText(post): title and body, as the text of an item
extractText(post) == [title |-> post.id, selftext |-> post.id, len |-> post.len]

\* the answers of a relevance batch of the route: the call fails, the answer
\* holds no array, it lists every id of the batch, or its first four or five
RtBatchOutcomes(batch) ==
  { [threw |-> TRUE,  resp |-> [hasArray |-> FALSE, parses |-> FALSE, elems |-> {}]],
    [threw |-> FALSE, resp |-> [hasArray |-> FALSE, parses |-> FALSE, elems |-> {}]] }
  \cup { [threw |-> FALSE,
          resp |-> [hasArray |-> TRUE, parses |-> TRUE,
                    elems |-> { [isStr |-> TRUE, v |-> batch[k].id] : k \in 1..n }]] :
           n \in {Len(batch)} \cup { m \in {4, 5} : m < Len(batch) } }

\* variant: the comments that are left are analyzed however few they are
selectItems_noThreshold(relevantCommentsRaw, uniquePosts) ==
  IF Len(relevantCommentsRaw) = 0
    THEN [k \in 1..Len(Slice(uniquePosts, 0, RtMaxPostItems)) |->
            [id |-> uniquePosts[k].id, text |-> extractText(uniquePosts[k])]]
    ELSE [k \in 1..Len(Slice(relevantCommentsRaw, 0, RtMaxCommentItems)) |->
            [id |-> relevantCommentsRaw[k].id, text |-> relevantCommentsRaw[k].text]]

\* itemsToAnalyze
selectItems(relevantCommentsRaw, uniquePosts) ==
  IF Len(relevantCommentsRaw) < RtMinComments
    THEN [k \in 1..Len(Slice(uniquePosts, 0, RtMaxPostItems)) |->
            [id |-> uniquePosts[k].id, text |-> extractText(uniquePosts[k])]]
    ELSE [k \in 1..Len(Slice(relevantCommentsRaw, 0, RtMaxCommentItems)) |->
            [id |-> relevantCommentsRaw[k].id, text |-> relevantCommentsRaw[k].text]]

\* the answers of the sentiment calls of a run: every call fails, every call
\* answers positive 50, or the calls answer negative -40 and positive 30 in turn
RtSentimentRuns == {"failing", "positive", "mixed"}

RtSentimentOutcome(run, k) ==
  IF run = "failing"
    THEN [threw |-> TRUE, hasObject |-> FALSE, parses |-> FALSE, parsed |-> SaNoFields]
    ELSE [threw |-> FALSE, hasObject |-> TRUE, parses |-> TRUE,
          parsed |-> IF run = "positive" \/ k % 2 = 0
                       THEN [sentiment |-> "positive",
                             score |-> JsNum(IF run = "positive" THEN 50 ELSE 30)]
                       ELSE [sentiment |-> "negative", score |-> JsNum(-40)]]

\* the MentionData made of an item and its SentimentResult
RtMention(item, sentiment) ==
  [id |-> item.id,
   text |-> [of |-> item.text, cut |-> item.text.len > RtDisplayLength],
   sentiment |-> sentiment.label,
   score |-> sentiment.score]

\* SentimentAnalyzer.calculateAggregate
calculateAggregate(results) ==
  IF Len(results) = 0
    THEN [averageScore |-> [sum |-> Num(0), n |-> 1], positive |-> 0, neutral |-> 0, negative |-> 0]
    ELSE [averageScore |-> [sum |-> SumScores(results), n |-> Len(results)],
          positive |-> Cardinality({ k \in 1..Len(results) : results[k].label = "positive" }),
          neutral  |-> Cardinality({ k \in 1..Len(results) : results[k].label = "neutral" }),
          negative |-> Cardinality({ k \in 1..Len(results) : results[k].label = "negative" })]

RtNoCalls ==
  [topics |-> 0, search |-> 0, fetch |-> 0, relevance |-> 0, sentiment |-> 0, delay |-> 0]

RtNoResponse == [kind |-> "none", mentions |-> <<>>]

\* the name the catch block hands to createDemoResponse
DemoCompany == <<"D", "e", "m", "o", " ", "C", "o", "m", "p", "a", "n", "y">>

\* hours of HistoryGenerator.generate when the caller names none
RtHistoryHours == 24

\* HistoryGenerator.generate(currentScore) as the route calls it: one point
\* per hour, trending to currentScore
RtHistory(currentScore) == [currentScore |-> currentScore, points |-> RtHistoryHours]

\* a number given in hundredths: n / 100
Hundredths(n) == [nan |-> FALSE, v |-> n, per |-> 100]

\* demoMentions: scores 0.85, 0.1, -0.6, 0.9, 0.7
demoMentions ==
  << [id |-> <<"demo1">>, sentiment |-> "positive", score |-> Hundredths(85)],
     [id |-> <<"demo2">>, sentiment |-> "neutral",  score |-> Hundredths(10)],
     [id |-> <<"demo3">>, sentiment |-> "negative", score |-> Hundredths(-60)],
     [id |-> <<"demo4">>, sentiment |-> "positive", score |-> Hundredths(90)],
     [id |-> <<"demo5">>, sentiment |-> "positive", score |-> Hundredths(70)] >>

RECURSIVE SumHundredths(_)
SumHundredths(mentions) ==
  IF Len(mentions) = 0 THEN 0
  ELSE SumHundredths(Tail(mentions)) + Head(mentions).score.v

\* createDemoResponse: avgScore is the sum of the demo scores over their
\* number, normalizedScore is avgScore * 100, kept as sum and count
createDemoResponse(company) ==
  LET normalizedScore == [sum |-> Num(SumHundredths(demoMentions)), n |-> Len(demoMentions)]
  IN  [kind |-> "demo",
       company |-> company,
       score |-> normalizedScore,
       total |-> Len(demoMentions),
       positive |-> CountLabel(demoMentions, "positive"),
       neutral |-> CountLabel(demoMentions, "neutral"),
       negative |-> CountLabel(demoMentions, "negative"),
       mentions |-> demoMentions,
       history |-> RtHistory(normalizedScore)]

\* variant: the failure leaves the handler
catchAll_rethrow == [kind |-> "failure", mentions |-> <<>>]

\* catch (error): the demo snapshot of "Demo Company" with status 200
catchAll == createDemoResponse(DemoCompany)

\* what a fetched post or its comments may lack: nothing, the title of the
\* post (title.slice throws a TypeError), or a numeric created_utc on a
\* comment (toISOString throws a RangeError)
RtFetchFaults == {"none", "title", "created_utc"}

\* variant: the handler goes on although the call never completed
awaitReturns_anyway(hung) == TRUE

\* await: the handler goes on when the awaited call, or with Promise.all every
\* awaited call, has completed
awaitReturns(hung) == ~hung

RtIdle ==
  /\ rt_pc = "idle"
  /\ rt_generated = <<>>
  /\ rt_topics = <<>>
  /\ rt_limit = 0
  /\ rt_t = 0
  /\ rt_allPosts = <<>>
  /\ rt_unique = <<>>
  /\ rt_p = 0
  /\ rt_allComments = <<>>
  /\ rt_pre = <<>>
  /\ rt_i = 0
  /\ rt_relevant = <<>>
  /\ rt_items = <<>>
  /\ rt_calls = RtNoCalls
  /\ rt_response = RtNoResponse
  /\ rt_hung = FALSE

\* the handler has been called and awaits generateTopics
RtInit ==
  /\ rt_pc = "topics"
  /\ rt_generated = <<>>
  /\ rt_topics = <<>>
  /\ rt_limit = 0
  /\ rt_t = 0
  /\ rt_allPosts = <<>>
  /\ rt_unique = <<>>
  /\ rt_p = 0
  /\ rt_allComments = <<>>
  /\ rt_pre = <<>>
  /\ rt_i = 0
  /\ rt_relevant = <<>>
  /\ rt_items = <<>>
  /\ rt_calls = [RtNoCalls EXCEPT !.topics = 1]
  /\ rt_response = RtNoResponse
  /\ rt_hung = FALSE

\* stage 1: generateTopics returns; the company name stands in for no topic;
\* the first search is issued, or, with no topic to search, no post is found
RtTopics ==
  /\ rt_pc = "topics"
  /\ awaitReturns(rt_hung)
  /\ \E outcome \in RtTopicOutcomes :
       LET generated == generateTopics(Company, RtTopicCount, outcome)
           topics == topicsOrCompany(generated, Company)
       IN  /\ rt_generated' = generated
           /\ rt_topics' = topics
           /\ rt_limit' = CeilDiv(RtTotalPosts, Len(topics))
           /\ IF Len(topics) > 0
                THEN /\ rt_t' = 1
                     /\ rt_pc' = "search"
                     /\ rt_calls' = [rt_calls EXCEPT !.search = 1]
                     /\ UNCHANGED rt_response
                ELSE /\ rt_t' = 0
                     /\ rt_pc' = "done"
                     /\ rt_response' = createDemoResponse(Company)
                     /\ UNCHANGED rt_calls
  /\ UNCHANGED <<rt_allPosts, rt_unique, rt_p, rt_allComments, rt_pre, rt_i, rt_relevant,
                 rt_items>>
  /\ UNCHANGED rt_hung
  /\ UNCHANGED rtOthers

\* variant: the run goes on to the comments without a post
noPostsFound_goOn(uniquePosts) == FALSE

\* uniquePosts.length === 0
noPostsFound(uniquePosts) == Len(uniquePosts) = 0

\* variant: a loop is left after its first awaited call
loopContinues_never(done, n) == FALSE

\* the loops over topics, postsToFetch and the batches of preFiltered: after
\* done elements of n another call is awaited; the code after the loop runs
\* when none is left
loopContinues(done, n) == done < n

\* the items are selected and the sentiment calls are made, all at once; when
\* the posts stand in for the comments and one of them carries no numeric
\* created_utc, toISOString throws and the catch block responds
RtSelect(relevantCommentsRaw, calls) ==
  \E dated \in BOOLEAN :
    IF Len(relevantCommentsRaw) < RtMinComments /\ Len(rt_unique) > 0 /\ ~dated
      THEN /\ rt_pc' = "done"
           /\ rt_response' = catchAll
           /\ rt_items' = rt_items
           /\ rt_calls' = calls
      ELSE LET items == selectItems(relevantCommentsRaw, rt_unique)
           IN  /\ rt_items' = items
               /\ rt_calls' = [calls EXCEPT !.sentiment = Len(items)]
               /\ rt_pc' = "sentiment"
               /\ rt_response' = rt_response

\* the filterRelevant call up to its first classification call, and, when it
\* makes none, the selection of the items and the sentiment calls
RtEnterFilter(allComments, calls) ==
  LET preFiltered == preFilter(allComments)
  IN  /\ rt_pre' = preFiltered
      /\ rt_i' = 0
      /\ rt_relevant' = <<>>
      /\ IF Len(preFiltered) = 0
           THEN RtSelect(<<>>, calls)
           ELSE /\ rt_items' = rt_items
                /\ rt_calls' = [calls EXCEPT !.relevance = 1]
                /\ rt_pc' = "filter"
                /\ rt_response' = rt_response

\* stage 2: the search of topic rt_t returns; after the last one the posts are
\* deduplicated and either the demo data is the response or the first fetch starts
RtSearch ==
  /\ rt_pc = "search"
  /\ awaitReturns(rt_hung)
  /\ \E ids \in RtSearchSamples :
       LET allPosts == rt_allPosts \o RtPosts(ids, rt_t)
           uniquePosts == uniquePostsOf(allPosts)
       IN  /\ rt_allPosts' = allPosts
           /\ IF loopContinues(rt_t, Len(rt_topics))
                THEN /\ rt_t' = rt_t + 1
                     /\ rt_calls' = [rt_calls EXCEPT !.search = @ + 1]
                     /\ UNCHANGED <<rt_pc, rt_unique, rt_p, rt_response>>
                ELSE /\ rt_unique' = uniquePosts
                     /\ rt_t' = rt_t
                     /\ IF noPostsFound(uniquePosts)
                          THEN /\ rt_response' = createDemoResponse(Company)
                               /\ rt_pc' = "done"
                               /\ UNCHANGED <<rt_p, rt_calls>>
                          ELSE /\ rt_p' = 1
                               /\ rt_pc' = "comments"
                               /\ rt_calls' = [rt_calls EXCEPT !.fetch = 1]
                               /\ UNCHANGED rt_response
  /\ UNCHANGED <<rt_generated, rt_topics, rt_limit, rt_allComments, rt_pre, rt_i, rt_relevant, rt_items>>
  /\ UNCHANGED rt_hung
  /\ UNCHANGED rtOthers

\* stage 3: the fetch for post rt_p returns; after the last one filterRelevant
\* is called
RtFetch ==
  /\ rt_pc = "comments"
  /\ awaitReturns(rt_hung)
  /\ \E texts \in RtCommentSamples, fault \in RtFetchFaults :
       LET postsToFetch == Slice(rt_unique, 0, RtPostsToFetch)
           allComments == rt_allComments \o RtFormat(texts, postsToFetch[rt_p])
       IN  IF fault = "title" \/ (fault = "created_utc" /\ Len(texts) > 0)
             THEN /\ rt_pc' = "done"
                  /\ rt_response' = catchAll
                  /\ UNCHANGED <<rt_allComments, rt_p, rt_calls, rt_pre, rt_i, rt_relevant, rt_items>>
             ELSE /\ rt_allComments' = allComments
                  /\ IF loopContinues(rt_p, Len(postsToFetch))
                       THEN /\ rt_p' = rt_p + 1
                            /\ rt_calls' = [rt_calls EXCEPT !.fetch = @ + 1]
                            /\ UNCHANGED <<rt_pc, rt_pre, rt_i, rt_relevant, rt_items, rt_response>>
                       ELSE /\ rt_p' = rt_p
                            /\ RtEnterFilter(allComments, rt_calls)
  /\ UNCHANGED <<rt_generated, rt_topics, rt_limit, rt_t, rt_allPosts, rt_unique>>
  /\ UNCHANGED rt_hung
  /\ UNCHANGED rtOthers

\* stage 4: the classification call of a batch returns; after the last one the
\* items are selected and the sentiment calls are made, all at once
RtFilterBatch ==
  /\ rt_pc = "filter"
  /\ awaitReturns(rt_hung)
  /\ LET batch == Slice(rt_pre, rt_i, rt_i + RtBatchSize)
     IN  \E outcome \in RtBatchOutcomes(batch) :
           LET relevant == rt_relevant \o filterBatch(batch, outcome)
               next == rt_i + RtBatchSize
           IN  /\ rt_relevant' = relevant
               /\ rt_i' = next
               /\ IF loopContinues(next, Len(rt_pre))
                    THEN /\ rt_calls' = [rt_calls EXCEPT !.relevance = @ + 1]
                         /\ UNCHANGED <<rt_pc, rt_items, rt_response>>
                    ELSE RtSelect(relevant, rt_calls)
  /\ UNCHANGED <<rt_generated, rt_topics, rt_limit, rt_t, rt_allPosts, rt_unique, rt_p, rt_allComments,
                 rt_pre>>
  /\ UNCHANGED rt_hung
  /\ UNCHANGED rtOthers

\* stage 5: every sentiment call has returned; the mentions are aggregated and
\* the handler responds
RtSentiment ==
  /\ rt_pc = "sentiment"
  /\ awaitReturns(rt_hung)
  /\ \E run \in RtSentimentRuns :
       LET mentions == [k \in 1..Len(rt_items) |->
                          RtMention(rt_items[k], analyze(RtSentimentOutcome(run, k)))]
           sentimentResults == [k \in 1..Len(mentions) |->
                                  [label |-> mentions[k].sentiment, score |-> mentions[k].score]]
           aggregate == calculateAggregate(sentimentResults)
       IN  rt_response' = [kind |-> "analysis",
                           score |-> aggregate.averageScore,
                           total |-> Len(mentions),
                           positive |-> aggregate.positive,
                           neutral |-> aggregate.neutral,
                           negative |-> aggregate.negative,
                           mentions |-> mentions,
                           history |-> RtHistory(aggregate.averageScore)]
  /\ rt_pc' = "done"
  /\ UNCHANGED <<rt_generated, rt_topics, rt_limit, rt_t, rt_allPosts, rt_unique, rt_p, rt_allComments,
                 rt_pre, rt_i, rt_relevant, rt_items, rt_calls>>
  /\ UNCHANGED rt_hung
  /\ UNCHANGED rtOthers

\* the call the handler awaits, or one of the sentiment calls it awaits
\* together, never completes
RtHang ==
  /\ rt_pc \in {"topics", "search", "comments", "filter", "sentiment"}
  /\ ~rt_hung
  /\ rt_hung' = TRUE
  /\ UNCHANGED <<rt_pc, rt_generated, rt_topics, rt_limit, rt_t, rt_allPosts, rt_unique, rt_p,
                 rt_allComments, rt_pre, rt_i, rt_relevant, rt_items, rt_calls, rt_response>>
  /\ UNCHANGED rtOthers

(***************************************************************************)
(* RelevanceFilter.isObviouslyIrrelevant on texts                          *)
(***************************************************************************)

\* company
PfCompany == <<"A", "c", "m", "e", " ", "C", "o">>

\* words of sentimentWords, strongSentimentWords, jobKeywords and spamKeywords
PfSentimentWords == {<<"g", "r", "e", "a", "t">>, <<"b", "e", "s", "t">>, <<"t", "e", "r", "r", "i", "b", "l", "e">>}

PfStrongSentimentWords == {<<"b", "e", "s", "t">>, <<"t", "e", "r", "r", "i", "b", "l", "e">>}

PfJobKeywords == {<<"h", "i", "r", "i", "n", "g">>, <<"w", "e", "'", "r", "e", " ", "h", "i", "r", "i", "n", "g">>, <<"a", "p", "p", "l", "y", " ", "n", "o", "w">>}

PfSpamKeywords == {<<"b", "u", "y", " ", "n", "o", "w">>}

\* beginnings the patterns of newsPatterns, techSupportPatterns and
\* genericPatterns accept
PfNewsStarts == {<<"j", "u", "s", "t", " ", "a", "n", "n", "o", "u", "n", "c", "e", "d">>}

PfTechSupportStarts == {<<"h", "o", "w", " ", "t", "o">>}

PfGenericStarts == {<<"t", "h", "o", "u", "g", "h", "t", "s", " ", "o", "n">>}

\* pattern.test(s) for a pattern ^start
startsWith(s, start) == Len(s) >= Len(start) /\ SubSeq(s, 1, Len(start)) = start

\* s.split(/\s+/) for a string without leading or trailing space
RECURSIVE splitWords(_)
splitWords(s) ==
  IF \A k \in 1..Len(s) : s[k] # " " THEN <<s>>
  ELSE LET k == CHOOSE j \in 1..Len(s) : s[j] = " " /\ \A h \in 1..(j - 1) : s[h] # " "
       IN  <<SubSeq(s, 1, k - 1)>> \o splitWords(trimStart(SubSeq(s, k, Len(s))))

\* what the checks of isObviouslyIrrelevant read off text and company
PfFeatures(text, company) ==
  LET lowerText == toLowerCase(text)
      lowerCompany == toLowerCase(company)
      companyWords == splitWords(lowerCompany)
  IN  MkText(\E w \in PfSentimentWords : includes(lowerText, w),
             \E w \in PfStrongSentimentWords : includes(lowerText, w),
             includes(lowerText, lowerCompany),
             \E k \in 1..Len(companyWords) :
               Len(companyWords[k]) > 3 /\ includes(lowerText, companyWords[k]),
             \E w \in PfJobKeywords : includes(lowerText, w),
             \E w \in PfNewsStarts : startsWith(toLowerCase(trim(text)), w),
             \E w \in PfTechSupportStarts : startsWith(lowerText, w),
             \E w \in PfSpamKeywords : includes(lowerText, w),
             \E w \in PfGenericStarts : startsWith(lowerText, w),
             Len(trim(text)))

\* the pieces texts are put together from
PfPieces ==
  { <<"g", "r", "e", "a", "t", " ">>,
    <<"A", "c", "m", "e", " ">>,
    <<"W", "e", "'", "r", "e", " ", "H", "i", "r", "i", "n", "g", " ">>,
    <<"W", "E", "'", "R", "E", " ", "H", "I", "R", "I", "N", "G", " ">>,
    <<"h", "o", "w", " ", "t", "o", " ">>,
    <<"x", "x", "x", "x", "x", "x", "x", "x", " ">>,
    <<"x", "x", "x", "x", "x", "x", "x", "x", "x", " ">>,
    <<" ", " ">> }

RECURSIVE PfJoin(_)
PfJoin(pieces) == IF Len(pieces) = 0 THEN <<>> ELSE Head(pieces) \o PfJoin(Tail(pieces))

PfTexts == { PfJoin(p) : p \in SeqsUpTo(PfPieces, MaxPieces) }

PfIdle ==
  /\ pf_pc = "idle"
  /\ pf_text = <<>>
  /\ pf_result = FALSE

PfInit ==
  /\ pf_pc = "call"
  /\ pf_text \in PfTexts
  /\ pf_result = FALSE

\* isObviouslyIrrelevant(text, company) returns
PfReturn ==
  /\ pf_pc = "call"
  /\ pf_result' = isObviouslyIrrelevant(PfFeatures(pf_text, PfCompany))
  /\ pf_pc' = "done"
  /\ UNCHANGED pf_text
  /\ UNCHANGED pfOthers

(***************************************************************************)
(* SocialMediaGenerator.generateAllPlatforms                               *)
(***************************************************************************)

\* platforms
GaPlatforms == <<"twitter", "linkedin", "facebook", "instagram">>

\* how the model call of one platform ends: it throws, it answers a plain
\* text, or a text with hashtags
GaOutcomes ==
  { [threw |-> TRUE, resp |-> SmText(<<>>)],
    [threw |-> FALSE, resp |-> SmText(<<" ", "'", "h", "i", "'", " ">>)],
    [threw |-> FALSE, resp |-> SmText(<<"h", "i", "\\n", "#", "a", "b", " ", "#", " ", "#", "1">>)] }

GaNotSettled == [threw |-> FALSE, value |-> <<>>]

\* variant: the posts that could be generated are returned
PromiseAll_fulfilledOnly(promises) ==
  LET kept == SelectSeq(promises, LAMBDA r : ~r.threw)
  IN  Returned([k \in 1..Len(kept) |-> kept[k].value])

\* Promise.all over settled promises: the values in the order of the
\* promises, or the rejection
PromiseAll(promises) ==
  IF \E k \in 1..Len(promises) : promises[k].threw THEN Thrown
  ELSE Returned([k \in 1..Len(promises) |-> promises[k].value])

GaIdle ==
  /\ ga_pc = "idle"
  /\ ga_angle = [data |-> FALSE, behind |-> FALSE, product |-> FALSE]
  /\ ga_pending = {}
  /\ ga_settled = [p \in Range(GaPlatforms) |-> GaNotSettled]
  /\ ga_order = <<>>
  /\ ga_result = GaNotSettled

\* generateAllPlatforms has started the four generateContent calls
GaInit ==
  /\ ga_pc = "pending"
  /\ ga_angle \in SmAngles
  /\ ga_pending = Range(GaPlatforms)
  /\ ga_settled = [p \in Range(GaPlatforms) |-> GaNotSettled]
  /\ ga_order = <<>>
  /\ ga_result = GaNotSettled

\* the generateContent call of one platform settles; Promise.all rejects with
\* the first rejection and fulfils when the last call has fulfilled
GaSettle ==
  /\ ga_pending # {}
  /\ \E platform \in ga_pending, outcome \in GaOutcomes :
       LET r == generateContent([platform |-> platform, angle |-> ga_angle], outcome)
           settled == [ga_settled EXCEPT ![platform] = r]
           pending == ga_pending \ {platform}
       IN  /\ ga_settled' = settled
           /\ ga_pending' = pending
           /\ ga_order' = Append(ga_order, platform)
           /\ IF ga_pc = "pending" /\ (r.threw \/ pending = {})
                THEN LET posts == PromiseAll(IF r.threw THEN <<r>>
                                             ELSE [k \in 1..Len(GaPlatforms) |-> settled[GaPlatforms[k]]])
                     IN  /\ ga_result' = posts
                         /\ ga_pc' = IF posts.threw THEN "rejected" ELSE "fulfilled"
                ELSE UNCHANGED <<ga_pc, ga_result>>
  /\ UNCHANGED ga_angle
  /\ UNCHANGED gaOthers

(***************************************************************************)
(* Specifications                                                          *)
(***************************************************************************)

InitRelevance == RfInit /\ SaIdle /\ TaIdle /\ AnIdle /\ ReIdle /\ RtIdle /\ TgIdle /\ RcIdle /\ HgIdle /\ StIdle /\ PfIdle /\ GaIdle

NextRelevance ==
  \/ RfStart
  \/ RfBatch

SpecRelevance == InitRelevance /\ [][NextRelevance]_vars

InitSentiment == SaIdle /\ RfIdle /\ TaIdle /\ AnIdle /\ ReIdle /\ RtIdle /\ TgIdle /\ RcIdle /\ HgIdle /\ StIdle /\ PfIdle /\ GaIdle

NextSentiment ==
  \/ SaCall
  \/ SaReturn

SpecSentiment == InitSentiment /\ [][NextSentiment]_vars

InitTopics == TaInit /\ RfIdle /\ SaIdle /\ AnIdle /\ ReIdle /\ RtIdle /\ TgIdle /\ RcIdle /\ HgIdle /\ StIdle /\ PfIdle /\ GaIdle

NextTopics ==
  \/ TaIdentify
  \/ TaAssign
  \/ TaFinish

SpecTopics == InitTopics /\ [][NextTopics]_vars

InitAnalyze == AnInit /\ RfIdle /\ SaIdle /\ TaIdle /\ ReIdle /\ RtIdle /\ TgIdle /\ RcIdle /\ HgIdle /\ StIdle /\ PfIdle /\ GaIdle

NextAnalyze == AnApply

SpecAnalyze == InitAnalyze /\ [][NextAnalyze]_vars

InitRecommend == ReInit /\ RfIdle /\ SaIdle /\ TaIdle /\ AnIdle /\ RtIdle /\ TgIdle /\ RcIdle /\ HgIdle /\ StIdle /\ PfIdle /\ GaIdle

NextRecommend ==
  \/ ReStart
  \/ ReComplete

SpecRecommend == InitRecommend /\ [][NextRecommend]_vars

InitRoute == RtInit /\ RfIdle /\ SaIdle /\ TaIdle /\ AnIdle /\ ReIdle /\ TgIdle /\ RcIdle /\ HgIdle /\ StIdle /\ PfIdle /\ GaIdle

NextRoute ==
  \/ RtTopics
  \/ RtSearch
  \/ RtFetch
  \/ RtFilterBatch
  \/ RtSentiment

SpecRoute == InitRoute /\ [][NextRoute]_vars

\* the route with calls that may never complete
NextRouteLive == NextRoute \/ RtHang

\* what a step of the handler does to its position and to the calls it has
\* issued: the call it awaits completes, and it awaits the next call of its
\* loop, issues the calls of the next stage, or responds
RtCallCompletes ==
  /\ rt_pc \in {"topics", "search", "comments", "filter", "sentiment"}
  /\ awaitReturns(rt_hung)
  /\ rt_pc' \in {"search", "comments", "filter", "sentiment", "done"}
  /\ rt_calls' \in {rt_calls} \cup
                    { [rt_calls EXCEPT ![stage] = n] :
                        stage \in {"search", "fetch", "relevance", "sentiment"},
                        n \in 1..RtMaxCommentItems }

\* a call that does not hang completes eventually, and the handler, which
\* waits for nothing else, takes its next step
SpecRouteLive ==
  InitRoute /\ [][NextRouteLive]_vars /\ WF_<<rt_pc, rt_calls>>(RtCallCompletes)

InitTopicGen == TgInit /\ RfIdle /\ SaIdle /\ TaIdle /\ AnIdle /\ ReIdle /\ RtIdle /\ RcIdle /\ HgIdle /\ StIdle /\ PfIdle /\ GaIdle

NextTopicGen == TgReturn

SpecTopicGen == InitTopicGen /\ [][NextTopicGen]_vars

InitReddit == RcInit /\ RfIdle /\ SaIdle /\ TaIdle /\ AnIdle /\ ReIdle /\ RtIdle /\ TgIdle /\ HgIdle /\ StIdle /\ PfIdle /\ GaIdle

NextReddit ==
  \/ RcSearch
  \/ RcSearchStrict
  \/ RcFetchComments

SpecReddit == InitReddit /\ [][NextReddit]_vars

InitHistory ==
  HgInit /\ RfIdle /\ SaIdle /\ TaIdle /\ AnIdle /\ ReIdle /\ RtIdle /\ TgIdle /\ RcIdle /\ StIdle /\ PfIdle /\ GaIdle

NextHistory ==
  \/ HgPoint
  \/ HgReturn

SpecHistory == InitHistory /\ [][NextHistory]_vars

InitStages ==
  StInit /\ RfIdle /\ SaIdle /\ TaIdle /\ AnIdle /\ ReIdle /\ RtIdle /\ TgIdle /\ RcIdle /\ HgIdle /\ PfIdle /\ GaIdle

NextStages ==
  \/ StTopicGeneration
  \/ StSearch
  \/ StFetchComments
  \/ StRelevanceFilter
  \/ StSentiment
  \/ StClustering
  \/ StRecommendation
  \/ StContent

SpecStages == InitStages /\ [][NextStages]_vars

InitPreFilter ==
  PfInit /\ RfIdle /\ SaIdle /\ TaIdle /\ AnIdle /\ ReIdle /\ RtIdle /\ TgIdle /\ RcIdle /\ HgIdle /\ StIdle /\ GaIdle

NextPreFilter == PfReturn

SpecPreFilter == InitPreFilter /\ [][NextPreFilter]_vars

InitAllPlatforms ==
  GaInit /\ RfIdle /\ SaIdle /\ TaIdle /\ AnIdle /\ ReIdle /\ RtIdle /\ TgIdle /\ RcIdle /\ HgIdle /\ StIdle /\ PfIdle

NextAllPlatforms == GaSettle

SpecAllPlatforms == InitAllPlatforms /\ [][NextAllPlatforms]_vars

(***************************************************************************)
(* Claims: RelevanceFilter                                                 *)
(***************************************************************************)

\* the classification answer of log entry k could not be parsed as an id list
RfParseFailed(k) ==
  /\ ~rf_log[k].outcome.threw
  /\ ~rf_log[k].outcome.resp.hasArray \/ ~rf_log[k].outcome.resp.parses

\* C1: whenever the answer for a batch cannot be parsed as an id list (no JSON
\* array found, JSON.parse fails), every item of that batch is in the output of
\* filterRelevant.
C1_ParseFailureKeepsBatch ==
  rf_pc = "done" =>
    \A k \in 1..Len(rf_log) :
      RfParseFailed(k) =>
        \A j \in 1..Len(rf_log[k].batch) : rf_log[k].batch[j] \in Range(rf_result)

\* the k-th batch of the pre-filtered list
RfBatchNo(k) == Slice(rf_pre, (k - 1) * rf_batchSize, k * rf_batchSize)

\* what batch k contributes: the whole batch, in order, when its call threw, and
\* otherwise what its own answer selects from it
RfContribution(k) ==
  IF rf_log[k].outcome.threw
    THEN RfBatchNo(k)
    ELSE SelectSeq(RfBatchNo(k),
                   LAMBDA item : item.id \in parseRelevantIds(rf_log[k].outcome.resp))

RECURSIVE RfContributions(_)
RfContributions(k) ==
  IF k = 0 THEN <<>> ELSE RfContributions(k - 1) \o RfContribution(k)

\* C2: when the classification call of a batch throws, filterRelevant returns all
\* items of that batch unfiltered and in input order, and every other batch
\* contributes exactly what its own answer selects.
C2_CallFailureKeepsBatch ==
  rf_pc = "done" /\ Len(rf_pre) > 0 =>
    /\ \A k \in 1..Len(rf_log) :
         /\ rf_log[k].batch = RfBatchNo(k)
         /\ rf_log[k].outcome.threw => rf_log[k].out = rf_log[k].batch
    /\ Len(rf_log) * rf_batchSize >= Len(rf_pre)
    /\ rf_result = RfContributions(Len(rf_log))

\* a run where a batch of two items lost its call and another batch was filtered
C2_Witness ==
  /\ rf_pc = "done"
  /\ \E j, k \in 1..Len(rf_log) :
       /\ rf_log[j].outcome.threw
       /\ Len(rf_log[j].batch) = 2
       /\ ~rf_log[k].outcome.threw
       /\ rf_log[k].out # rf_log[k].batch
       /\ Len(rf_result) = 2

(***************************************************************************)
(* Claims: SentimentAnalyzer                                               *)
(***************************************************************************)

SaFallback == [label |-> "neutral", score |-> Num(0)]

SaParsed == ~sa_outcome.threw /\ sa_outcome.hasObject /\ sa_outcome.parses

SaLabelInvalid == SaParsed /\ sa_outcome.parsed.sentiment \notin validSentiments

SaScoreMissing == SaParsed /\ sa_outcome.parsed.score.t = "undefined"

SaClamp(n) == IF n > 100 THEN 100 ELSE IF n < -100 THEN -100 ELSE n

\* C5: analyze returns exactly {neutral, 0} whenever no JSON object is found, the
\* label is not one of the three allowed values, or the score is missing.
C5_InvalidFieldYieldsFallback ==
  sa_pc = "returned" =>
    ( (~sa_outcome.threw /\ ~sa_outcome.hasObject) \/ SaLabelInvalid \/ SaScoreMissing
        => sa_result = SaFallback )

\* C5 as amended: a failed call, no JSON object or unparseable JSON yield
\* {neutral, 0}; otherwise each field is defaulted on its own: an invalid label
\* becomes neutral while a numeric score is kept (clamped), and a missing score
\* becomes 0 while a valid label is kept.
C5_PerFieldDefaults ==
  sa_pc = "returned" =>
    /\ ~SaParsed => sa_result = SaFallback
    /\ SaLabelInvalid =>
         /\ sa_result.label = "neutral"
         /\ sa_outcome.parsed.score.t = "number" =>
              sa_result.score = Num(SaClamp(sa_outcome.parsed.score.n.v))
    /\ SaScoreMissing =>
         /\ sa_result.score = Num(0)
         /\ sa_outcome.parsed.sentiment \in validSentiments =>
              sa_result.label = sa_outcome.parsed.sentiment

\* an invalid label came back with score 50, and a missing score with a valid label
C5_Witness ==
  /\ sa_pc = "returned"
  /\ SaLabelInvalid
  /\ sa_outcome.parsed.score = JsNum(50)
  /\ sa_result = [label |-> "neutral", score |-> Num(50)]

\* C6: for every model response the score of the returned SentimentResult lies
\* in [-100, 100].
C6_ScoreInRange ==
  sa_pc = "returned" =>
    /\ ~sa_result.score.nan
    /\ sa_result.score.v >= -100
    /\ sa_result.score.v <= 100

(***************************************************************************)
(* Claims: TopicAnalyzer                                                   *)
(***************************************************************************)

\* the clusters of the result that hold mention m
TaHolders(m) ==
  { k \in 1..Len(ta_result) : \E j \in 1..Len(ta_result[k].mentions) :
                                 ta_result[k].mentions[j] = m }

RECURSIVE TaTotal(_)
TaTotal(k) == IF k = 0 THEN 0 ELSE TaTotal(k - 1) + ta_result[k].mentionCount

\* C4: for any non-empty mention list and any model answers the returned
\* clusters partition the input mentions: the mentionCounts add up to the number
\* of input mentions and every mention is in exactly one cluster.
C4_ClustersPartitionMentions ==
  ta_pc = "done" /\ Len(ta_mentions) > 0 =>
    /\ TaTotal(Len(ta_result)) = Len(ta_mentions)
    /\ \A m \in 1..Len(ta_mentions) : Cardinality(TaHolders(ta_mentions[m])) = 1

\* C8: every returned cluster has mentionCount = positive + neutral + negative
\* = length of its mentions list, and mentionCount >= 1.
C8_ClusterCountsAgree ==
  ta_pc = "done" =>
    \A k \in 1..Len(ta_result) :
      /\ ta_result[k].mentionCount =
           ta_result[k].positive + ta_result[k].neutral + ta_result[k].negative
      /\ ta_result[k].mentionCount = Len(ta_result[k].mentions)
      /\ ta_result[k].mentionCount >= 1

\* a cluster with a mention of each label was returned while another topic
\* stayed empty
C8_Witness ==
  /\ ta_pc = "done"
  /\ Len(ta_clusters) > Len(ta_result)
  /\ \E k \in 1..Len(ta_result) :
       /\ ta_result[k].positive = 1
       /\ ta_result[k].neutral = 1
       /\ ta_result[k].negative = 1

C9Rank(p) == IF p = "high" THEN 0 ELSE IF p = "medium" THEN 1 ELSE 2

\* C9: the returned list is ordered by priority (high, medium, low) and, among
\* clusters of equal priority, by non-increasing mentionCount.
C9_SortedByPriorityThenCount ==
  ta_pc = "done" =>
    \A i, j \in 1..Len(ta_result) :
      i < j =>
        /\ C9Rank(ta_result[i].priority) <= C9Rank(ta_result[j].priority)
        /\ ta_result[i].priority = ta_result[j].priority =>
             ta_result[i].mentionCount >= ta_result[j].mentionCount

\* a result the sort had to reorder: its first cluster is not the first
\* non-empty cluster of the Map, and two clusters of equal priority differ in size
C9_Witness ==
  /\ ta_pc = "done"
  /\ Len(ta_result) >= 2
  /\ ta_result[1].topic # removeEmptyClusters(ta_clusters)[1].topic
  /\ ta_result[1].priority = ta_result[2].priority
  /\ ta_result[1].mentionCount > ta_result[2].mentionCount

(***************************************************************************)
(* Claims: analyzeClusters                                                 *)
(***************************************************************************)

C7Negative(c) == Cardinality({ k \in 1..Len(c.mentions) : c.mentions[k].sentiment = "negative" })

\* negativePercentage >= p
C7PercentGe(c, p) == C7Negative(c) * 100 >= p * Len(c.mentions)

C7ShouldAddress(c) ==
  \/ C7PercentGe(c, 40)
  \/ (C7Negative(c) >= 3 /\ MeanLt(c.averageSentiment, -10))

\* C7: for every non-empty cluster shouldAddress = (negativePercentage >= 40 or
\* (negativeCount >= 3 and averageSentiment < -10)); when addressed, priority is
\* high if negativePercentage >= 60 or averageSentiment <= -30 and medium
\* otherwise; priority is low exactly when shouldAddress is false.
C7_ShouldAddressAndPriority ==
  an_pc = "done" =>
    \A k \in 1..Len(an_output) :
      LET c == an_output[k]
      IN  /\ c.shouldAddress = C7ShouldAddress(c)
          /\ c.shouldAddress =>
               c.priority = IF C7PercentGe(c, 60) \/ MeanLe(c.averageSentiment, -30)
                              THEN "high" ELSE "medium"
          /\ (c.priority = "low") = ~c.shouldAddress

\* a cluster addressed only through its three negatives and its average, at
\* medium priority
C7_Witness ==
  /\ an_pc = "done"
  /\ Len(an_output) = 1
  /\ an_output[1].negative = 3
  /\ ~C7PercentGe(an_output[1], 40)
  /\ an_output[1].shouldAddress
  /\ an_output[1].priority = "medium"

(***************************************************************************)
(* Claims: RecommendationEngine                                            *)
(***************************************************************************)

\* the call of addressed cluster k failed, or no JSON object could be parsed
ReFailed(k) ==
  re_outcomes[k].threw \/ ~re_outcomes[k].hasObject \/ ~re_outcomes[k].parses

\* the recommendations of the result made for addressed cluster k
ReFor(k) ==
  { j \in 1..Len(re_result) : re_result[j].topic = clustersToAddress(re_clusters)[k].topic }

\* a failed cluster yields nothing, is not retried, and every other cluster's
\* recommendation is returned
ReDropsOnlyFailures ==
  /\ re_calls = Len(clustersToAddress(re_clusters))
  /\ \A k \in 1..Len(clustersToAddress(re_clusters)) :
       Cardinality(ReFor(k)) = IF ReFailed(k) THEN 0 ELSE 1

\* C10: a cluster whose call or parsing fails yields no recommendation and is
\* not retried, the other clusters' recommendations are returned, and no
\* recommendation is emitted whose missing issue, impact or post-idea list was
\* filled in by a placeholder.
C10_DropNoPlaceholders ==
  re_pc = "done" =>
    /\ ReDropsOnlyFailures
    /\ \A k \in 1..Len(clustersToAddress(re_clusters)) :
         (re_outcomes[k].issue = "" \/ re_outcomes[k].impact = "" \/ ~re_outcomes[k].isArray)
           => ReFor(k) = {}

\* C10 as amended: a cluster whose call fails or whose response holds no
\* parseable JSON object yields no recommendation and is not retried, and the
\* other clusters' recommendations are returned; a parsed object that lacks the
\* issue, the impact or the post-idea array still yields a recommendation, with
\* "Issue not identified", "Impact unclear" or an empty list in its place.
C10_DropOnFailurePlaceholdersOtherwise ==
  re_pc = "done" =>
    /\ ReDropsOnlyFailures
    /\ \A k \in 1..Len(clustersToAddress(re_clusters)) :
         ~ReFailed(k) =>
           \A j \in ReFor(k) :
             /\ re_result[j].issue =
                  IF re_outcomes[k].issue = "" THEN "Issue not identified"
                  ELSE re_outcomes[k].issue
             /\ re_result[j].impact =
                  IF re_outcomes[k].impact = "" THEN "Impact unclear"
                  ELSE re_outcomes[k].impact
             /\ ~re_outcomes[k].isArray => re_result[j].postSuggestions = <<>>

\* of two addressed clusters one lost its call and the other answered an
\* object without fields, which came back as a recommendation of placeholders
C10_Witness ==
  /\ re_pc = "done"
  /\ Len(clustersToAddress(re_clusters)) = 2
  /\ \E k \in 1..2 : re_outcomes[k].threw
  /\ Len(re_result) = 1
  /\ re_result[1].issue = "Issue not identified"
  /\ re_result[1].impact = "Impact unclear"
  /\ re_result[1].postSuggestions = <<>>

(***************************************************************************)
(* C3: the fallback cascade of the route                                   *)
(***************************************************************************)

\* the handler has selected the items it analyzes
RtSelected == rt_pc = "sentiment" \/ (rt_pc = "done" /\ rt_response.kind = "analysis")

RtCommentIds == { rt_allComments[k].id : k \in 1..Len(rt_allComments) }

RtItemIds == { rt_items[k].id : k \in 1..Len(rt_items) }

\* the deduplicated posts: one post for each id searched, no id twice
RtDeduplicated ==
  /\ \A j, k \in 1..Len(rt_unique) : rt_unique[j].id = rt_unique[k].id => j = k
  /\ { rt_unique[k].id : k \in 1..Len(rt_unique) }
       = { rt_allPosts[k].id : k \in 1..Len(rt_allPosts) }

RtFromPosts ==
  /\ Len(rt_items) = (IF Len(rt_unique) < 10 THEN Len(rt_unique) ELSE 10)
  /\ \A k \in 1..Len(rt_items) :
       /\ rt_items[k].id = rt_unique[k].id
       /\ rt_items[k].text = [title |-> rt_unique[k].id, selftext |-> rt_unique[k].id,
                              len |-> rt_unique[k].len]
  /\ RtItemIds \cap RtCommentIds = {}

RtFromComments ==
  /\ Len(rt_items) = (IF Len(rt_relevant) < 20 THEN Len(rt_relevant) ELSE 20)
  /\ \A k \in 1..Len(rt_items) :
       /\ rt_items[k].id = rt_relevant[k].id
       /\ rt_items[k].text = rt_relevant[k].text
  /\ RtItemIds \subseteq RtCommentIds

\* C3: when the relevance filter returns fewer than 5 comments, the items
\* analyzed are the first (at most 10) deduplicated posts with title and body
\* as their text, and none of them is a comment; when it returns 5 or more,
\* the items analyzed are the first (at most 20) of those comments and nothing
\* else.  The mentions of the response are those items, in that order.
C3_FallbackCascade ==
  RtSelected =>
    /\ RtDeduplicated
    /\ IF Len(rt_relevant) < 5 THEN RtFromPosts ELSE RtFromComments
    /\ rt_pc = "done" =>
         /\ Len(rt_response.mentions) = Len(rt_items)
         /\ \A k \in 1..Len(rt_items) : rt_response.mentions[k].id = rt_items[k].id

\* four comments pass the filter, eleven posts were found: ten posts are analyzed
C3_Witness ==
  /\ rt_pc = "done"
  /\ rt_response.kind = "analysis"
  /\ Len(rt_relevant) = 4
  /\ Len(rt_unique) > 10
  /\ Len(rt_response.mentions) = 10

(***************************************************************************)
(* Claims: TopicGenerator                                                  *)
(***************************************************************************)

\* the call failed, the answer held no parseable array, or nothing was left of it
TgFailed ==
  \/ tg_outcome.threw
  \/ ~tg_outcome.resp.hasArray
  \/ ~tg_outcome.resp.parses
  \/ parseTopics(tg_outcome.resp) = <<>>

\* C11: generateTopics returns [company] on every failure (the call throws,
\* the answer holds no parseable array, the parsed result is empty) and never
\* returns an empty list.
C11_FallbackOnEveryFailure ==
  tg_pc = "done" =>
    /\ TgFailed => tg_result = <<tg_company>>
    /\ Len(tg_result) > 0

TgDistinct(s) == \A j, k \in 1..Len(s) : s[j] = s[k] => j = k

TgTrimmedNonEmpty(t) == Len(t) > 0 /\ t[1] # " " /\ t[Len(t)] # " "

\* C13: the list returned by generateTopics(company, count) has at most count
\* elements, holds no string twice, and every element is a trimmed non-empty
\* string.
C13_AtMostCountDistinctTrimmed ==
  tg_pc = "done" =>
    /\ Len(tg_result) <= tg_count
    /\ TgDistinct(tg_result)
    /\ \A k \in 1..Len(tg_result) : TgTrimmedNonEmpty(tg_result[k])

(***************************************************************************)
(* C12: the search stage never starts without a topic                      *)
(***************************************************************************)

\* C12: whatever generateTopics returned, once the topics stage is over the
\* topic list is non-empty, at least one search has been issued, and
\* postsPerTopic is ceil(15 / number of topics), a division by a non-zero
\* number.
C12_SearchHasTopics ==
  rt_pc # "topics" =>
    /\ Len(rt_topics) >= 1
    /\ rt_calls.search >= 1
    /\ rt_limit \in 1..15
    /\ rt_limit * Len(rt_topics) >= 15
    /\ (rt_limit - 1) * Len(rt_topics) < 15

\* generateTopics returned no topic and the company name is searched
C12_Witness ==
  /\ rt_pc = "search"
  /\ rt_generated = <<>>
  /\ rt_topics = <<Company>>
  /\ rt_calls.search = 1
  /\ rt_limit = 15

(***************************************************************************)
(* C14: deduplication of the posts found                                   *)
(***************************************************************************)

\* the searches are over and uniquePosts has been computed
RtMerged == rt_pc \notin {"topics", "search"}

RtPostIds == { rt_allPosts[k].id : k \in 1..Len(rt_allPosts) }

\* the position of the last post of allPosts with this id
RtLastSeen(id) ==
  CHOOSE j \in 1..Len(rt_allPosts) :
    /\ rt_allPosts[j].id = id
    /\ \A k \in (j + 1)..Len(rt_allPosts) : rt_allPosts[k].id # id

\* C14: uniquePosts holds exactly one entry per distinct post id of allPosts
\* (its length is the number of distinct ids, in whatever order the searches
\* returned them), and the entry kept for an id is its last occurrence in
\* allPosts.
C14_OnePerIdLastSeen ==
  RtMerged =>
    /\ Len(rt_unique) = Cardinality(RtPostIds)
    /\ { rt_unique[k].id : k \in 1..Len(rt_unique) } = RtPostIds
    /\ \A k \in 1..Len(rt_unique) : rt_unique[k] = rt_allPosts[RtLastSeen(rt_unique[k].id)]

\* two searches returned the same post; the one of the later search is kept
C14_Witness ==
  /\ rt_pc = "comments"
  /\ \E j, k \in 1..Len(rt_allPosts) :
       /\ j < k
       /\ rt_allPosts[j].id = rt_allPosts[k].id
       /\ rt_allPosts[j].from # rt_allPosts[k].from
  /\ Len(rt_unique) < Len(rt_allPosts)

(***************************************************************************)
(* Claims: RedditClient                                                    *)
(***************************************************************************)

\* the fetch threw, the status was no success, the content type was missing
\* or not JSON, the body did not parse, or the payload had the wrong shape
RcFailure ==
  \/ rc_outcome.netThrows
  \/ ~rc_outcome.ok
  \/ rc_outcome.contentType # "json"
  \/ rc_outcome.jsonThrows
  \/ rc_outcome.payload.shape # "listing"

\* C15: search and fetchComments never throw; for a non-success status, a
\* missing or non-JSON content type, a malformed payload shape or a thrown
\* network or parse error each returns the empty list.
C15_ClientNeverThrows ==
  rc_pc = "done" =>
    /\ ~rc_result.threw
    /\ RcFailure => rc_result.value = <<>>

\* a search whose fetch threw returned the empty list
C15_Witness ==
  /\ rc_pc = "done"
  /\ rc_op = "search"
  /\ rc_outcome.netThrows
  /\ rc_result = Returned(<<>>)

(***************************************************************************)
(* C16: the order of the flattened comments                                *)
(***************************************************************************)

\* every node of a reply forest
RECURSIVE RcNodes(_)
RcNodes(forest) ==
  UNION { {forest[k]} \cup RcNodes(forest[k].replies) : k \in 1..Len(forest) }

RcTree == RcNodes(rc_outcome.payload.children)

\* fetchComments was handed a reply tree without null children
RcFlattened ==
  /\ rc_pc = "done"
  /\ rc_op = "fetchComments"
  /\ ~RcFailure
  /\ \A n \in RcTree : n.kind # "null"

\* a comment: a t1 node with a body
RcIsComment(n) == n.kind = "t1" /\ n.body

\* path a is a proper prefix of path b: the node at a is an ancestor of the one at b
RcAncestor(a, b) == Len(a) < Len(b) /\ SubSeq(b, 1, Len(a)) = a

\* depth-first pre-order of paths: an ancestor comes first, and otherwise the
\* path that turns to the earlier sibling where the two part
RcBefore(a, b) ==
  \/ RcAncestor(a, b)
  \/ \E k \in 1..Len(a) :
       /\ k <= Len(b)
       /\ SubSeq(a, 1, k - 1) = SubSeq(b, 1, k - 1)
       /\ a[k] < b[k]

RcOutput == rc_result.value

RcOccurrences(id) == Cardinality({ k \in 1..Len(RcOutput) : RcOutput[k].id = id })

RcPreorder == \A j, k \in 1..Len(RcOutput) : j < k => RcBefore(RcOutput[j].id, RcOutput[k].id)

RcReached(n) == \A m \in RcTree : RcAncestor(m.id, n.id) => RcIsComment(m)

RtLaterCalls(n) == IF n > 1 THEN n - 1 ELSE 0

\* C17: a delay step takes place before every topic search after the first
\* and before every comments fetch after the first, so at least as many delays
\* have taken place as later calls have been issued.
C17_DelayBeforeLaterCalls ==
  rt_calls.delay >= RtLaterCalls(rt_calls.search) + RtLaterCalls(rt_calls.fetch)

(***************************************************************************)
(* C18: the statistics of a response                                       *)
(***************************************************************************)

\* a score in hundredths
RtInHundredths(x) == IF "per" \in DOMAIN x THEN x.v ELSE 100 * x.v

RECURSIVE RtScoreSum(_)
RtScoreSum(mentions) ==
  IF Len(mentions) = 0 THEN 0
  ELSE RtScoreSum(Tail(mentions)) + RtInHundredths(Head(mentions).score)

\* score = sum / n is the mean of the scores of the mentions
RtScoreIsMean(r) ==
  /\ ~r.score.sum.nan
  /\ 100 * r.score.sum.v * Len(r.mentions) = r.score.n * RtScoreSum(r.mentions)

\* C18: every response of the route, on the normal path and on the demo
\* paths, has score = arithmetic mean of the scores of its mentions, total =
\* number of mentions, and positive + neutral + negative = total.
C18_SnapshotStatistics ==
  rt_pc = "done" =>
    /\ RtScoreIsMean(rt_response)
    /\ rt_response.total = Len(rt_response.mentions)
    /\ rt_response.positive + rt_response.neutral + rt_response.negative = rt_response.total

(***************************************************************************)
(* Claims: HistoryGenerator                                                *)
(***************************************************************************)

HgInRange(x) == ~x.nan /\ -100 * x.den <= x.num /\ x.num <= 100 * x.den

\* exactly hours points, one hour apart, the last one at now
HgHourly ==
  /\ Len(hg_history) = hg_hours
  /\ \A k \in 1..(Len(hg_history) - 1) :
       hg_history[k + 1].timestamp.ms = hg_history[k].timestamp.ms + 3600000
  /\ hg_history[Len(hg_history)].timestamp.ms = hg_now

\* C19: for any currentScore and any hours >= 1, whatever the random numbers,
\* generate returns exactly hours points, each with score in [-100, 100], with
\* strictly increasing timestamps one hour apart, the last one at the current
\* time.
C19_HistoryBounds ==
  hg_pc = "done" =>
    /\ HgHourly
    /\ \A k \in 1..Len(hg_history) : HgInRange(hg_history[k].score)

(***************************************************************************)
(* C20: failures of external calls in the lower-level stages               *)
(***************************************************************************)

\* a stage was called and an external call it made threw
StCallFailed == st_pc = "done" /\ st_failed

\* C20 as stated: no lower-level stage lets the failure of an external call
\* escape as an exception; each returns a value.
C20_NoStageThrows == StCallFailed => ~st_result.threw

\* the value a stage returns when its only external call threw
StSafeDefault ==
  CASE st_stage = "topicGeneration" -> st_result.value = <<st_input>>
    [] st_stage = "search" -> st_result.value = <<>>
    [] st_stage = "fetchComments" -> st_result.value = <<>>
    [] st_stage = "relevanceFilter" -> st_result.value = st_input
    [] st_stage = "sentiment" -> st_result.value = [label |-> "neutral", score |-> Num(0)]
    [] st_stage = "recommendation" -> st_result.value = [isNull |-> TRUE]
    [] OTHER -> TRUE

\* C20 amended: topic generation, search, reply fetch, relevance filtering,
\* sentiment classification, topic clustering and recommendation generation
\* return a value (their safe default) when an external call they make throws;
\* platform content generation does not: generateContent throws the failure on
\* to its caller.
C20_StagesReturnContentThrows ==
  StCallFailed =>
    IF st_stage = "content"
      THEN st_result.threw
      ELSE ~st_result.threw /\ StSafeDefault

\* the model call of generateContent threw and generateContent threw
C20_Witness ==
  /\ StCallFailed
  /\ st_stage = "content"
  /\ st_result = Thrown

(***************************************************************************)
(* Claims: the handler's catch block                                       *)
(***************************************************************************)

\* the fields of a SentimentSnapshot
RtSnapshotFields == {"score", "total", "positive", "neutral", "negative", "mentions", "history"}

RtWellFormed(r) ==
  /\ r.kind \in {"analysis", "demo"}
  /\ RtSnapshotFields \subseteq DOMAIN r
  /\ r.total \in Nat
  /\ {r.positive, r.neutral, r.negative} \subseteq Nat
  /\ r.history.points = RtHistoryHours

\* C21: every run of the handler ends with one well-formed snapshot (score,
\* total, per-label counts, mentions, history); an exception thrown inside the
\* handler is answered with the fallback snapshot and never leaves it; before
\* the end nothing has been responded.
C21_OneWellFormedResponse ==
  /\ rt_pc = "done" => RtWellFormed(rt_response)
  /\ rt_pc # "done" => rt_response = RtNoResponse

\* C21 witness: after a relevance call, a post standing in for the comments
\* threw and the handler responded with the snapshot of "Demo Company"
C21_Witness ==
  /\ rt_pc = "done"
  /\ rt_response.kind = "demo"
  /\ rt_response.company = DemoCompany
  /\ rt_calls.relevance > 0

(***************************************************************************)
(* Claims: the pre-filter                                                  *)
(***************************************************************************)

PfWeAreHiring == <<"w", "e", "'", "r", "e", " ", "h", "i", "r", "i", "n", "g">>

\* C23: the pre-filter rejects every text whose trimmed length is below 30,
\* with or without a sentiment word or the entity name in it, and every text
\* that contains "we're hiring" in any case, with or without them.
C23_ShortAndHiringRejected ==
  pf_pc = "done" =>
    /\ Len(trim(pf_text)) < PfMinLength => pf_result
    /\ includes(toLowerCase(pf_text), PfWeAreHiring) => pf_result

\* C23 witness: a text of fewer than 30 characters with a sentiment word and
\* the entity name, and no job keyword, was rejected
C23_Witness ==
  /\ pf_pc = "done"
  /\ pf_result
  /\ Len(trim(pf_text)) < PfMinLength
  /\ LET f == PfFeatures(pf_text, PfCompany)
     IN  f.sent /\ f.word /\ ~f.job /\ ~f.tech

(***************************************************************************)
(* Claims: generateAllPlatforms                                            *)
(***************************************************************************)

GaFailed == \E p \in Range(GaPlatforms) : ga_settled[p].threw

\* C22: generateAllPlatforms is all or nothing: when it returns, it returns
\* four posts in the order twitter, linkedin, facebook, instagram, whatever
\* the order the four calls settled in, each with characterCount the length
\* of its content; as soon as one call has failed the whole call has failed
\* and no list is returned.
C22_AllOrNothingInFixedOrder ==
  /\ ga_pc = "fulfilled" =>
       /\ ~GaFailed
       /\ ~ga_result.threw
       /\ Len(ga_result.value) = Len(GaPlatforms)
       /\ \A k \in 1..Len(GaPlatforms) :
            /\ ga_result.value[k].platform = GaPlatforms[k]
            /\ ga_result.value[k] = ga_settled[GaPlatforms[k]].value
            /\ ga_result.value[k].characterCount = Len(ga_result.value[k].content)
  /\ GaFailed => ga_pc = "rejected" /\ ga_result = Thrown
  /\ ga_pc = "pending" => ga_result = GaNotSettled /\ ga_pending # {}
  /\ (ga_pending = {} /\ ga_pc # "idle") => ga_pc \in {"fulfilled", "rejected"}

\* C22 witness: the calls settled in the order instagram, facebook, linkedin,
\* twitter, none failed, and the four posts were returned
C22_Witness ==
  /\ ga_pc = "fulfilled"
  /\ ga_order = <<"instagram", "facebook", "linkedin", "twitter">>
  /\ Len(ga_result.value) = 4
  /\ ga_result.value[1].characterCount = 2

(***************************************************************************)
(* Claims: the order of the mentions of a cluster                          *)
(***************************************************************************)

\* the mentions are in the order of the input list (id k is input position k)
TaInInputOrder(mentions) ==
  \A i, j \in 1..Len(mentions) : i < j => mentions[i].id < mentions[j].id

\* C24: inside each cluster the mentions are in input order, whatever the
\* order in which the per-mention calls of a batch complete, so that the
\* first-5 sample of the description prompt and the first-8 negative sample
\* of the recommendation prompt do not depend on the completion order.
C24_ClusterOrderIsInputOrder ==
  /\ \A k \in 1..Len(ta_clusters) : TaInInputOrder(ta_clusters[k].mentions)
  /\ \A k \in 1..Len(ta_result) : TaInInputOrder(ta_result[k].mentions)

(***************************************************************************)
(* Claims: assignMentionToTopic                                            *)
(***************************************************************************)

\* the listed topics the answer equals, ignoring case, once trimmed and
\* stripped of surrounding quotes
TaExact(topics, text) ==
  { k \in 1..Len(topics) :
      topics[k].isStr /\ toLowerCase(topics[k].name) = toLowerCase(stripQuotes(trim(text))) }

\* the listed topics whose name the answer contains
TaContained(topics, text) ==
  { k \in 1..Len(topics) :
      topics[k].isStr /\ includes(toLowerCase(stripQuotes(trim(text))), toLowerCase(topics[k].name)) }

\* C27: while mentions are being assigned, an answer that equals a listed
\* topic ignoring case, once trimmed and stripped of quotes, is assigned to
\* that topic, also when the name of another listed topic is a substring of
\* the answer; an answer that contains no listed topic, and a failed call,
\* are assigned to the first topic.
C27_ExactAnswerWins ==
  ta_pc = "assign" =>
    \A outcome \in TaAssignOutcomes :
      LET assigned == assignMentionToTopic(ta_topics, outcome)
      IN  /\ (~outcome.threw /\ TaExact(ta_topics, outcome.text) # {}) =>
               assigned \in { ta_topics[k] : k \in TaExact(ta_topics, outcome.text) }
          /\ (outcome.threw \/ TaContained(ta_topics, outcome.text) = {}) =>
               assigned = TaFirstTopic(ta_topics)

(***************************************************************************)
(* Claims: the stages of the route                                         *)
(***************************************************************************)

\* calls of a stage that were issued and have not returned
RtInFlight(stage) == IF rt_pc = stage THEN 1 ELSE 0

\* C25: the stages of a run never overlap: a fetch is issued only when every
\* search has returned, a relevance call only when every fetch has returned,
\* a sentiment call only when every relevance batch has returned.
C25_StagesNeverOverlap ==
  /\ rt_calls.fetch > 0 =>
       /\ RtInFlight("search") = 0
       /\ rt_calls.search = Len(rt_topics)
  /\ rt_calls.relevance > 0 =>
       /\ RtInFlight("search") = 0 /\ RtInFlight("comments") = 0
       /\ rt_calls.fetch = Len(Slice(rt_unique, 0, RtPostsToFetch))
  /\ rt_calls.sentiment > 0 =>
       /\ RtInFlight("search") = 0 /\ RtInFlight("comments") = 0 /\ RtInFlight("filter") = 0
       /\ rt_calls.fetch = Len(Slice(rt_unique, 0, RtPostsToFetch))
       /\ rt_calls.relevance = CeilDiv(Len(rt_pre), RtBatchSize)

\* C25 witness: sentiment calls were issued after two searches, two fetches
\* and a relevance batch
C25_Witness ==
  /\ rt_pc = "sentiment"
  /\ rt_calls.sentiment > 0
  /\ rt_calls.search = 2
  /\ rt_calls.fetch >= 2
  /\ rt_calls.relevance >= 1

(***************************************************************************)
(* Claims: what reaches the classifier                                     *)
(***************************************************************************)

\* C26: the classifier is called only for items that passed the pre-filter,
\* it is not called at all when none passed, and what filterRelevant returns
\* is a sub-sequence of its input (item k of the input has id k).
C26_OnlyPreFilteredClassified ==
  /\ \A k \in 1..Len(rf_log) : \A j \in 1..Len(rf_log[k].batch) :
       /\ ~isObviouslyIrrelevant(rf_log[k].batch[j].text)
       /\ rf_log[k].batch[j] \in Range(rf_items)
  /\ (rf_pc = "done" /\ \A j \in 1..Len(rf_items) : isObviouslyIrrelevant(rf_items[j].text)) =>
       rf_log = <<>> /\ rf_result = <<>>
  /\ rf_pc = "done" =>
       /\ \A j \in 1..Len(rf_result) : rf_result[j] = rf_items[rf_result[j].id]
       /\ \A i, j \in 1..Len(rf_result) : i < j => rf_result[i].id < rf_result[j].id

\* C26 witness: of an input with a rejected item between two passing ones,
\* the classifier saw the two and filterRelevant returned the second
C26_Witness ==
  /\ rf_pc = "done"
  /\ Len(rf_items) = 3
  /\ isObviouslyIrrelevant(rf_items[2].text)
  /\ Len(rf_pre) = 2
  /\ Len(rf_log) > 0
  /\ Len(rf_result) = 1 /\ rf_result[1].id = 3

(***************************************************************************)
(* Claims: which clusters get a recommendation                             *)
(***************************************************************************)

\* the recommendations of the result made for cluster k of the input
ReOf(k) == { j \in 1..Len(re_result) : re_result[j].topic = re_clusters[k].topic }

ReAddressed == { k \in 1..Len(re_clusters) : re_clusters[k].shouldAddress }

\* C28: generateRecommendations returns at most one recommendation for each
\* cluster with shouldAddress and none for any other cluster; every
\* recommendation has priority high or medium and affectedMentions equal to
\* the negative count of its cluster; it makes one model call per cluster
\* with shouldAddress, so none when there is no such cluster.
C28_OnlyAddressedClusters ==
  /\ re_pc \in {"awaiting", "done"} => re_calls = Cardinality(ReAddressed)
  /\ re_pc = "done" =>
       /\ \A k \in 1..Len(re_clusters) :
            /\ Cardinality(ReOf(k)) <= (IF k \in ReAddressed THEN 1 ELSE 0)
            /\ \A j \in ReOf(k) : re_result[j].affectedMentions = re_clusters[k].negative
       /\ \A j \in 1..Len(re_result) :
            /\ re_result[j].priority \in {"high", "medium"}
            /\ \E k \in ReAddressed : j \in ReOf(k)

\* C28 witness: of three clusters the two with shouldAddress, one high and one
\* medium, got a recommendation each after two calls, the third got none
C28_Witness ==
  /\ re_pc = "done"
  /\ Len(re_clusters) = 3
  /\ Cardinality(ReAddressed) = 2
  /\ re_calls = 2
  /\ Len(re_result) = 2
  /\ re_result[1].priority = "high"
  /\ re_result[2].priority = "medium"

\* every search of the run has returned
RtSearchesReturned ==
  /\ rt_pc \notin {"idle", "topics", "search"}
  /\ rt_calls.search = Len(rt_topics)

\* C29: when the searches of a run have all returned and found no post, the
\* handler has responded with the demo snapshot of the requested entity and
\* has made no fetch, no relevance call and no sentiment call.
C29_NoPostsDemoWithoutCalls ==
  (RtSearchesReturned /\ rt_allPosts = <<>>) =>
    /\ rt_pc = "done"
    /\ rt_response.kind = "demo"
    /\ rt_response.company = Company
    /\ rt_response.mentions = demoMentions
    /\ rt_calls.fetch = 0
    /\ rt_calls.relevance = 0
    /\ rt_calls.sentiment = 0

\* C29 witness: two searches returned without a post and the demo snapshot
\* was the response
C29_Witness ==
  /\ rt_pc = "done"
  /\ rt_calls.search = 2
  /\ rt_allPosts = <<>>
  /\ rt_response.kind = "demo"
  /\ rt_calls.fetch = 0

(***************************************************************************)
(* Claims: termination of a run                                            *)
(***************************************************************************)

\* no call is made twice: one topics call, a search per topic, a fetch for
\* each of at most five posts, a relevance call per batch, a sentiment call
\* for each of at most twenty items
RtCallsBounded ==
  /\ rt_calls.topics <= 1
  /\ rt_calls.search <= Len(rt_topics)
  /\ rt_calls.fetch <= RtPostsToFetch /\ rt_calls.fetch <= Len(rt_unique)
  /\ rt_calls.relevance <= CeilDiv(Len(rt_pre), RtBatchSize)
  /\ rt_calls.sentiment <= RtMaxCommentItems /\ rt_calls.sentiment = Len(rt_items)

\* C30: a run in which every call completes ends with a response, after
\* calls that are never repeated (at most 5 fetches and 20 sentiment calls);
\* a run with a call that never completes never responds.
C30_RespondsIffCallsComplete ==
  /\ <>(rt_hung \/ rt_pc = "done")
  /\ [](rt_hung => [](rt_pc # "done" /\ rt_response = RtNoResponse))
  /\ []RtCallsBounded

\* C30 witness: a run with five fetches and twenty sentiment calls, all
\* completed, has responded
C30_Witness ==
  /\ rt_pc = "done"
  /\ ~rt_hung
  /\ rt_response.kind = "analysis"
  /\ rt_calls.fetch = 5
  /\ rt_calls.sentiment = 20

====
